---- MODULE Spec2Model ----
(***************************************************************************)
(* Fan-out and connection lifecycle of burma2dserver.                      *)
(*                                                                         *)
(* Three packages keep a registry of subscriber channels and dispatch to   *)
(* it:                                                                     *)
(*   live    result stream (SSE): UpdateLotteryData, broadcastUpdate,      *)
(*           StreamLotteryData                                             *)
(*   chatws  WebSocket chat: HandleWebSocket, readPump, writePump,         *)
(*           disconnect, handleBroadcast                                   *)
(*   chat    SSE chat: sseStreamHandler, broadcastMessage,                 *)
(*           broadcastOnlineStatus                                         *)
(* The packages share no variable (each has its own clients map and its    *)
(* own clientsMutex), so a behaviour drives the endpoints of one package;  *)
(* pkg records which one.                                                  *)
(***************************************************************************)
EXTENDS Integers, Sequences, FiniteSets, TLC

\* ---------------------------------------------------------------- bounds
NumStreams == 2      \* result-stream connections (numbered in order of arrival)
NumUpdaters == 2     \* UpdateLotteryData requests (numbered in order of arrival)
LiveChanCap == 1     \* capacity of clientChan (make(chan string, 50)), scaled
MaxHistoryCalls == 1 \* invocations of the history callback in one behaviour
MaxOddFields == 2    \* keys of a request body that are missing or empty
TicksPerMinute == 2  \* clock ticks in time.Minute
MaxClock == 5        \* clock ticks in one behaviour
WindowFrom == 1      \* first tick at which the wall clock reads 16:30
WindowTo == 4        \* last tick before it reads 16:35 (the window, scaled)
VersionLen == 3      \* numbers in a dotted version (major.minor.patch)
MaxVersionPart == 10 \* largest number in a dotted version

NumWS == 2           \* WebSocket connections (numbered in order of arrival)
NumWSUsers == 2      \* identities behind the WebSocket connections
WSSendCap == 1       \* capacity of WSClient.Send (make(chan []byte, 256)), scaled
WSBroadcastCap == 1  \* capacity of broadcast (make(chan []byte, 256)), scaled
MaxWSFrames == 1     \* frames read after authentication in one behaviour
NumChat == 2         \* SSE chat connections (numbered in order of arrival)
NumChatUsers == 2    \* user_id values the SSE chat connections may carry
ChatChanCap == 1     \* capacity of SSEClient.Channel (make(chan []byte, 10)), scaled
MaxChatMsgs == 1     \* requests handled by sendMessageHandler
NumBannable == 1     \* identities the admin's ban and unban requests name

Streams == 1..NumStreams
Updaters == 1..NumUpdaters
WSConns == 1..NumWS
WSUsers == 1..NumWSUsers

\* Inbound frames that are not a well-formed request: one that does not
\* decode as a JSON object, an object with no string "type", and an object
\* whose type is neither "message" nor "ping".
WSMalformed == {"undecodable", "notype", "unknowntype"}

\* Frames of type "message" that handleChatMessage does not accept: the
\* "message" member is missing or no string, it is the empty string, or the
\* INSERT into chatws_messages fails.
WSBadMessages == {"nostring", "empty", "insertfails"}

\* Contents of the stores behind the WebSocket chat when the server starts:
\* the rows of chatws_blocked_users (<<blocker_id, blocked_id>>) and the
\* ban list.  Either both are empty, or user 1 has blocked user 2 and
\* user 2 is banned.
WSStores == {[blocked |-> {}, banned |-> {}],
             [blocked |-> {<<1, 2>>}, banned |-> {2}]}
ChatConns == 1..NumChat
ChatUsers == 1..NumChatUsers

\* user ids a ban or unban request may carry
ChatBannable == 1..NumBannable

\* (blocker_id, blocked_id) pairs a block or unblock request may carry
ChatBlockPairs == {p \in ChatUsers \X ChatUsers : p[1] # p[2]}

\* "payload" is the content side of live.UpdateLotteryData: what a request
\* body is decoded to and what is stored for it.
Packages == {"live", "payload", "history", "locks", "version", "chatws", "chat"}

\* The string fields of LotteryDataInput and LotteryData.
Fields == {"Date", "Live", "Status", "Set1200", "Value1200", "Result1200",
           "Set430", "Value430", "Result430", "Modern930", "Internet930",
           "Modern200", "Internet200", "UpdateTime"}

\* The json tag of each LotteryDataInput field.
InputKey(f) ==
  CASE f = "Date" -> "date"
    [] f = "Live" -> "live"
    [] f = "Status" -> "status"
    [] f = "Set1200" -> "1200set"
    [] f = "Value1200" -> "1200value"
    [] f = "Result1200" -> "1200"
    [] f = "Set430" -> "430set"
    [] f = "Value430" -> "430value"
    [] f = "Result430" -> "430"
    [] f = "Modern930" -> "930modern"
    [] f = "Internet930" -> "930internet"
    [] f = "Modern200" -> "200modern"
    [] f = "Internet200" -> "200internet"
    [] f = "UpdateTime" -> "updatetime"

InputKeys == {InputKey(f) : f \in Fields}

\* Sets of at most MaxOddFields keys.
OddKeySets == {x \in SUBSET InputKeys : Cardinality(x) <= MaxOddFields}

\* JSON objects a producer may post: every key carries the value "7",
\* except at most MaxOddFields keys that are left out or carry "".
PayloadObjects ==
  {[k \in InputKeys \ o[1] |-> IF k \in o[2] THEN "" ELSE "7"] :
     o \in {q \in OddKeySets \X OddKeySets :
              q[1] \cap q[2] = {} /\ Cardinality(q[1] \cup q[2]) <= MaxOddFields}}

\* A body that is no JSON object.
BadBody == [valid |-> FALSE, object |-> [k \in {} |-> ""]]

\* Request bodies.
Bodies == {[valid |-> TRUE, object |-> b] : b \in PayloadObjects} \cup {BadBody}

NoMsg == [ver |-> 0, views |-> 0]   \* cachedJSONMessage == ""

VARIABLES
  pkg,                \* package whose endpoints this behaviour drives
  \* ---- package live
  liveClients,        \* clients map[chan string]bool (keys)
  liveChan,           \* buffered contents of each clientChan
  liveClosed,         \* clientChan has been closed
  livePc,             \* position of each StreamLotteryData handler
  liveCount,          \* clientCount local of each handler
  liveInit,           \* initialMessage local of each handler
  liveRLock,          \* goroutines holding clientsMutex.RLock
  currentData,        \* the snapshot
  cachedJSONMessage,  \* last encoded message
  nextVer,            \* number of updates accepted so far
  updPc,              \* position of each UpdateLotteryData request
  updCount,           \* clientCount local of broadcastUpdate
  updMsg,             \* message local of broadcastUpdate
  updTodo,            \* channels the range loop has not visited yet
  updSent,            \* channels counted in sentCount
  updSkipped,         \* channels counted in skippedCount
  livePanic,          \* a goroutine paniced: send on closed channel
  historyCalls,       \* invocations of historyInserter so far
  liveSeen,           \* per handler: versions of the broadcast messages it
                      \* has written to its transport, in order
  \* ---- package live, content of the snapshot
  reqBody,            \* body of the update request
  payloadPc,          \* position of the request in UpdateLotteryData
  snapFields,         \* string fields of *currentData
  \* ---- package live, checkAndInsertHistory
  clock,              \* time.Now(), in ticks
  lastCheckTime,      \* the package variable of that name, in ticks
  historyInserter,    \* a callback is registered (FALSE: historyInserter == nil)
  histPc,             \* position of each request in checkAndInsertHistory
  histNow,            \* now local of each request
  histInput,          \* inputData.Result430 of each request
  histLog,            \* invocations of historyInserter so far, in order
  \* ---- package live, its three locks
  lkPc,               \* per goroutine: lock operations of its handler done so far
  lkWriter,           \* per lock: the goroutine inside Lock .. Unlock (Nobody: none)
  lkReaders,          \* per lock: the goroutines inside RLock .. RUnlock
  lkPending,          \* per lock: the goroutines blocked in Lock
  lkCached,           \* cachedJSONMessage != ""
  cfgMinimumVersion,  \* app_config.minimum_version of the newest row (a string)
  reqVersion,         \* req.Version of the last CheckVersion ("" before the first)
  updateRequired,     \* update_required of its response
  \* ---- package chatws
  wsClients,          \* clients map[*WSClient]bool (keys)
  wsSend,             \* buffered contents of each client's Send channel
  wsClosed,           \* Send has been closed
  wsCloseCount,       \* number of close(Send) executed per client
  wsPc,               \* position of each HandleWebSocket/readPump goroutine
  wpPc,               \* position of each writePump goroutine
  wsList,             \* onlineUsers local of sendOnlineUsersToClient
  wsCnt,              \* count local of broadcastUserJoined/broadcastUserLeft
  broadcast,          \* buffered contents of the broadcast channel
  hbPc,               \* position of handleBroadcast
  hbMsg,              \* message local of handleBroadcast
  hbTodo,             \* clients the range loop has not visited yet
  hbSent,             \* clients the current dispatch has enqueued to
  hbDropped,          \* clients the current dispatch has closed and deleted
  wsIsOnline,         \* chatws_users.is_online per user id
  wsLeft,             \* number of user_left events enqueued per client
  wsPanic,            \* goroutines ended by a send on / close of a closed channel
  wsFrames,           \* frames read after authentication so far
  wsBlocked,          \* rows of chatws_blocked_users: <<blocker_id, blocked_id>>
  wsBanned,           \* user ids in the ban list
  wsToken,            \* the idtoken query parameter each connection presents
  wsAuthErr,          \* connections that were written the authentication-failure
                      \* frame and closed by HandleWebSocket
  wsMessages,         \* ids of the rows of chatws_messages
  wsTrace,            \* the two records below are being kept
  wsOrder,            \* the events put on the broadcast channel, in order
  wsSeen,             \* per client: the events handleBroadcast has put on its
                      \* Send channel, in order
  \* ---- package chat
  chatClients,        \* clients map[string]*SSEClient: user id -> connection, 0 = absent
  chatChan,           \* buffered contents of each client.Channel
  chatUid,            \* userID of each sseStreamHandler
  chatPc,             \* position of each sseStreamHandler
  chatEv,             \* sseData local of the handler's broadcastOnlineStatus
  chatTodo,           \* clients its range loop has not visited yet
  chatRLock,          \* goroutines holding clientsMutex.RLock
  chatIsOnline,       \* chat_users.is_online per user id
  smPc,               \* position of the sendMessageHandler request
  smFrom,             \* senderID of the message being broadcast
  smTodo,             \* clients broadcastMessage has not visited yet
  chatMsgs,           \* messages sent so far
  chatBlocks,         \* rows of chat_blocks: <<blocker_id, blocked_id>>
  chatBanned,         \* user_id column of chat_banned_users
  smBlockedBy,        \* users whose block of the sender was in place when
                      \* broadcastMessage was called and has not been lifted since
  googleClientID,     \* GOOGLE_OAUTH_CLIENT_ID as main passed it on ("" when unset)
  authPc,             \* position of the googleAuthHandler request
  authEv,             \* sseData local of its broadcastOnlineStatus
  authTodo,           \* clients its range loop has not visited yet
  chatVerified        \* users for whom idtoken.Validate has succeeded

liveVars == <<liveClients, liveChan, liveClosed, livePc, liveCount, liveInit,
              liveRLock, currentData, cachedJSONMessage, nextVer,
              updPc, updCount, updMsg, updTodo, updSent, updSkipped, livePanic,
              historyCalls, liveSeen>>

payloadVars == <<reqBody, payloadPc, snapFields>>

histVars == <<clock, lastCheckTime, historyInserter, histPc, histNow,
              histInput, histLog>>

lkVars == <<lkPc, lkWriter, lkReaders, lkPending, lkCached>>

verVars == <<cfgMinimumVersion, reqVersion, updateRequired>>

\* the state of the content, history and lock views of package live, and of
\* the app-config handlers
sideVars == <<payloadVars, histVars, lkVars, verVars>>

wsRegVars == <<wsClients, wsSend, wsClosed, wsCloseCount>>
wsHbVars == <<hbPc, hbMsg, hbTodo, hbSent, hbDropped>>
wsLocalVars == <<wsList, wsCnt>>
wsGhostVars == <<wsLeft, wsPanic, wsFrames>>
wsStore == <<wsBlocked, wsBanned>>
wsVars == <<wsRegVars, wsPc, wpPc, wsLocalVars, broadcast, wsHbVars,
            wsIsOnline, wsGhostVars, wsStore, wsToken, wsAuthErr, wsMessages,
            wsTrace, wsOrder, wsSeen>>

\* the tables of package chat that its handlers read and write
chatDB == <<chatBlocks, chatBanned>>

\* the state of the sign-in endpoint of package chat
authVars == <<googleClientID, authPc, authEv, authTodo, chatVerified>>

chatVars == <<chatClients, chatChan, chatUid, chatPc, chatEv, chatTodo,
              chatRLock, chatIsOnline, smPc, smFrom, smTodo, chatMsgs, chatDB,
              smBlockedBy, authVars>>

\* ================================================================ live

\* sync.RWMutex: Lock is granted when no reader holds the lock.  Every
\* writer critical section of the package is a single step, so no writer
\* is ever inside when another goroutine runs.
LiveCanLock_NoLock == TRUE
LiveCanLock == liveRLock = {}

\* delete(clients, clientChan)
LiveRemove_Leak(h) == liveClients
LiveRemove(h) == liveClients \ {h}

\* The step belongs to package live; the other packages' state is untouched.
LiveFrame ==
  pkg = "live" /\ UNCHANGED <<pkg, sideVars, wsVars, chatVars>>

LiveInit ==
  /\ liveClients = {}
  /\ liveChan = [h \in Streams |-> << >>]
  /\ liveClosed = [h \in Streams |-> FALSE]
  /\ livePc = [h \in Streams |-> "idle"]
  /\ liveCount = [h \in Streams |-> 0]
  /\ liveInit = [h \in Streams |-> NoMsg]
  /\ liveRLock = {}
  /\ currentData = [ver |-> 0, views |-> 0]
  /\ cachedJSONMessage = NoMsg
  /\ nextVer = 0
  /\ updPc = [u \in Updaters |-> "idle"]
  /\ updCount = [u \in Updaters |-> 0]
  /\ updMsg = [u \in Updaters |-> NoMsg]
  /\ updTodo = [u \in Updaters |-> {}]
  /\ updSent = [u \in Updaters |-> {}]
  /\ updSkipped = [u \in Updaters |-> {}]
  /\ livePanic = FALSE
  /\ historyCalls = 0
  /\ liveSeen = [h \in Streams |-> << >>]

\* StreamLotteryData: make the channel and register it under the write lock.
StreamRegister(h) ==
  /\ LiveFrame
  /\ UNCHANGED <<historyCalls, liveSeen>>
  /\ livePc[h] = "idle"
  /\ \A g \in Streams : g < h => livePc[g] # "idle"
  /\ LiveCanLock
  /\ liveClients' = liveClients \cup {h}
  /\ liveCount' = [liveCount EXCEPT ![h] = Cardinality(liveClients \cup {h})]
  /\ livePc' = [livePc EXCEPT ![h] = "registered"]
  /\ UNCHANGED <<liveChan, liveClosed, liveInit, liveRLock,
                 currentData, cachedJSONMessage, nextVer, updPc, updCount,
                 updMsg, updTodo, updSent, updSkipped, livePanic>>

\* initialMessage := cachedJSONMessage (under cachedJSONMutex.RLock)
StreamReadCache(h) ==
  /\ LiveFrame
  /\ UNCHANGED <<historyCalls, liveSeen>>
  /\ livePc[h] = "registered"
  /\ liveInit' = [liveInit EXCEPT ![h] = cachedJSONMessage]
  /\ livePc' = [livePc EXCEPT ![h] = "cached"]
  /\ UNCHANGED <<liveClients, liveChan, liveClosed, liveCount, liveRLock, currentData, cachedJSONMessage, nextVer, updPc,
                 updCount, updMsg, updTodo, updSent, updSkipped, livePanic>>

\* The initial message of StreamLotteryData: the cached encoded message when
\* there is one, otherwise the snapshot marshalled with ViewCount set to the
\* handler's clientCount.
InitialMessage(h) ==
  IF liveInit[h] = NoMsg THEN [currentData EXCEPT !.views = liveCount[h]]
                         ELSE liveInit[h]

\* No cached message: set ViewCount on the shared snapshot and marshal it;
\* then write the initial frame.
StreamWriteInitial(h) ==
  /\ LiveFrame
  /\ UNCHANGED <<historyCalls, liveSeen>>
  /\ livePc[h] = "cached"
  /\ IF liveInit[h] = NoMsg
       THEN currentData' = InitialMessage(h)
       ELSE currentData' = currentData
  /\ livePc' = [livePc EXCEPT ![h] = "loop"]
  /\ liveInit' = [liveInit EXCEPT ![h] = NoMsg]
  /\ liveCount' = [liveCount EXCEPT ![h] = 0]
  /\ UNCHANGED <<liveClients, liveChan, liveClosed,
                 liveRLock, cachedJSONMessage, nextVer, updPc, updCount,
                 updMsg, updTodo, updSent, updSkipped, livePanic>>

StreamDeliver_BeforeInitial(h) ==
  /\ LiveFrame
  /\ UNCHANGED historyCalls
  /\ livePc[h] \in {"cached", "loop"}
  /\ liveChan[h] # << >>
  /\ liveSeen' = [liveSeen EXCEPT ![h] = Append(@, Head(liveChan[h]).ver)]
  /\ liveChan' = [liveChan EXCEPT ![h] = Tail(@)]
  /\ UNCHANGED <<liveClients, liveClosed, livePc, liveCount, liveInit,
                 liveRLock, currentData, cachedJSONMessage, nextVer, updPc,
                 updCount, updMsg, updTodo, updSent, updSkipped, livePanic>>

\* select: case message := <-clientChan: write the message to the transport.
\* The loop is entered after the initial message has been written.
StreamDeliver(h) ==
  /\ LiveFrame
  /\ UNCHANGED historyCalls
  /\ livePc[h] = "loop"
  /\ liveChan[h] # << >>
  /\ liveSeen' = [liveSeen EXCEPT ![h] = Append(@, Head(liveChan[h]).ver)]
  /\ liveChan' = [liveChan EXCEPT ![h] = Tail(@)]
  /\ UNCHANGED <<liveClients, liveClosed, livePc, liveCount, liveInit,
                 liveRLock, currentData, cachedJSONMessage, nextVer, updPc,
                 updCount, updMsg, updTodo, updSent, updSkipped, livePanic>>

\* select: case <-notify: delete the entry under the write lock.
StreamDisconnect(h) ==
  /\ LiveFrame
  /\ UNCHANGED <<historyCalls, liveSeen>>
  /\ livePc[h] = "loop"
  /\ LiveCanLock
  /\ liveClients' = LiveRemove(h)
  /\ livePc' = [livePc EXCEPT ![h] = "deleted"]
  /\ UNCHANGED <<liveChan, liveClosed, liveCount, liveInit, liveRLock, currentData, cachedJSONMessage, nextVer, updPc,
                 updCount, updMsg, updTodo, updSent, updSkipped, livePanic>>

\* close(clientChan), after the lock has been released; return.
StreamClose(h) ==
  /\ LiveFrame
  /\ UNCHANGED historyCalls
  /\ liveSeen' = [liveSeen EXCEPT ![h] = << >>]
  /\ livePc[h] = "deleted"
  /\ liveClosed' = [liveClosed EXCEPT ![h] = TRUE]
  /\ livePc' = [livePc EXCEPT ![h] = "done"]
  /\ liveChan' = [liveChan EXCEPT ![h] = << >>]
  /\ UNCHANGED <<liveClients, liveCount, liveInit, liveRLock, currentData, cachedJSONMessage, nextVer, updPc,
                 updCount, updMsg, updTodo, updSent, updSkipped, livePanic>>

\* HTTP status UpdateLotteryData has answered with (0: none yet).
UpdStatus(u) ==
  CASE updPc[u] = "rejected" -> 400
    [] updPc[u] = "done" -> 200
    [] OTHER -> 0

\* GetCurrentData: the "data" member of the response is the snapshot as it
\* stands, read under dataMutex.RLock.
GetCurrentData == currentData

\* UpdateLotteryData: the body cannot be read, or json.Unmarshal fails:
\* answer 400 and return.
UpdReject_Stored(u) ==
  /\ LiveFrame
  /\ UNCHANGED <<historyCalls, liveSeen>>
  /\ updPc[u] = "idle"
  /\ \A v \in Updaters : v < u => updPc[v] # "idle"
  /\ nextVer' = nextVer + 1
  /\ currentData' = [ver |-> nextVer + 1, views |-> 0]
  /\ updPc' = [updPc EXCEPT ![u] = "rejected"]
  /\ UNCHANGED <<liveClients, liveChan, liveClosed, livePc, liveCount,
                 liveInit, liveRLock, cachedJSONMessage, updCount,
                 updMsg, updTodo, updSent, updSkipped, livePanic>>

UpdReject(u) ==
  /\ LiveFrame
  /\ UNCHANGED <<historyCalls, liveSeen>>
  /\ updPc[u] = "idle"
  /\ \A v \in Updaters : v < u => updPc[v] # "idle"
  /\ updPc' = [updPc EXCEPT ![u] = "rejected"]
  /\ UNCHANGED <<liveClients, liveChan, liveClosed, livePc, liveCount,
                 liveInit, liveRLock, currentData, cachedJSONMessage, nextVer,
                 updCount, updMsg, updTodo, updSent, updSkipped, livePanic>>

\* UpdateLotteryData: the parsed payload replaces the snapshot under the
\* write lock; then checkAndInsertHistory calls the history callback when
\* one is registered, the clock is inside the insert window, the evening
\* result is ready and no check was made within the last minute (call).
UpdStore(u) ==
  /\ LiveFrame
  /\ updPc[u] = "idle"
  /\ \A v \in Updaters : v < u => updPc[v] # "idle"
  /\ nextVer' = nextVer + 1
  /\ currentData' = [ver |-> nextVer + 1, views |-> 0]
  /\ \E call \in BOOLEAN :
       /\ call => historyCalls < MaxHistoryCalls
       /\ historyCalls' = IF call THEN historyCalls + 1 ELSE historyCalls
  /\ UNCHANGED liveSeen
  /\ updPc' = [updPc EXCEPT ![u] = "stored"]
  /\ UNCHANGED <<liveClients, liveChan, liveClosed, livePc, liveCount,
                 liveInit, liveRLock, cachedJSONMessage, updCount,
                 updMsg, updTodo, updSent, updSkipped, livePanic>>

\* broadcastUpdate step 1: clientCount := len(clients) under RLock.
UpdCount(u) ==
  /\ LiveFrame
  /\ UNCHANGED <<historyCalls, liveSeen>>
  /\ updPc[u] = "stored"
  /\ updCount' = [updCount EXCEPT ![u] = Cardinality(liveClients)]
  /\ updPc' = [updPc EXCEPT ![u] = "counted"]
  /\ UNCHANGED <<liveClients, liveChan, liveClosed, livePc, liveCount,
                 liveInit, liveRLock, currentData, cachedJSONMessage,
                 nextVer, updMsg, updTodo, updSent, updSkipped, livePanic>>

\* broadcastUpdate step 2: set ViewCount on the snapshot and encode it.
UpdEncode(u) ==
  /\ LiveFrame
  /\ UNCHANGED <<historyCalls, liveSeen>>
  /\ updPc[u] = "counted"
  /\ currentData' = [currentData EXCEPT !.views = updCount[u]]
  /\ updMsg' = [updMsg EXCEPT ![u] = [currentData EXCEPT !.views = updCount[u]]]
  /\ updPc' = [updPc EXCEPT ![u] = "encoded"]
  /\ UNCHANGED <<liveClients, liveChan, liveClosed, livePc, liveCount,
                 liveInit, liveRLock, cachedJSONMessage, nextVer,
                 updCount, updTodo, updSent, updSkipped, livePanic>>

\* cachedJSONMessage = message
UpdCache(u) ==
  /\ LiveFrame
  /\ UNCHANGED <<historyCalls, liveSeen>>
  /\ updPc[u] = "encoded"
  /\ cachedJSONMessage' = updMsg[u]
  /\ updPc' = [updPc EXCEPT ![u] = "cachedmsg"]
  /\ UNCHANGED <<liveClients, liveChan, liveClosed, livePc, liveCount,
                 liveInit, liveRLock, currentData, nextVer, updCount,
                 updMsg, updTodo, updSent, updSkipped, livePanic>>

\* broadcastUpdate step 3: clientsMutex.RLock(); start ranging over clients.
UpdRLock(u) ==
  /\ LiveFrame
  /\ UNCHANGED <<historyCalls, liveSeen>>
  /\ updPc[u] = "cachedmsg"
  /\ liveRLock' = liveRLock \cup {u}
  /\ updTodo' = [updTodo EXCEPT ![u] = liveClients]
  /\ updSent' = [updSent EXCEPT ![u] = {}]
  /\ updSkipped' = [updSkipped EXCEPT ![u] = {}]
  /\ updPc' = [updPc EXCEPT ![u] = "loop"]
  /\ UNCHANGED <<liveClients, liveChan, liveClosed, livePc, liveCount,
                 liveInit, currentData, cachedJSONMessage, nextVer,
                 updCount, updMsg, livePanic>>

\* One iteration of the range loop: select { case clientChan <- message:
\* sentCount++  default: skippedCount++ }.  A send on a closed channel
\* panics.
BroadcastSend_Blocking(u, c) ==
  /\ LiveFrame
  /\ UNCHANGED <<historyCalls, liveSeen>>
  /\ updPc[u] = "loop"
  /\ c \in updTodo[u]
  /\ ~liveClosed[c]
  /\ Len(liveChan[c]) < LiveChanCap
  /\ liveChan' = [liveChan EXCEPT ![c] = Append(@, updMsg[u])]
  /\ updSent' = [updSent EXCEPT ![u] = @ \cup {c}]
  /\ updTodo' = [updTodo EXCEPT ![u] = @ \ {c}]
  /\ UNCHANGED <<liveClients, liveClosed, livePc, liveCount, liveInit,
                 liveRLock, currentData, cachedJSONMessage, nextVer,
                 updPc, updCount, updMsg, updSkipped, livePanic>>

BroadcastSend_Revisit(u, c) ==
  /\ LiveFrame
  /\ UNCHANGED <<historyCalls, liveSeen>>
  /\ updPc[u] = "loop"
  /\ c \in updTodo[u]
  /\ IF liveClosed[c]
       THEN /\ livePanic' = TRUE
            /\ updTodo' = [updTodo EXCEPT ![u] = @ \ {c}]
            /\ UNCHANGED <<liveChan, updSent, updSkipped>>
       ELSE /\ livePanic' = livePanic
            /\ IF Len(liveChan[c]) < LiveChanCap
                 THEN /\ liveChan' = [liveChan EXCEPT ![c] = Append(@, updMsg[u])]
                      /\ updSent' = [updSent EXCEPT ![u] = @ \cup {c}]
                      /\ updTodo' = [updTodo EXCEPT ![u] =
                                       IF c \in updSent[u] THEN @ \ {c} ELSE @]
                      /\ updSkipped' = updSkipped
                 ELSE /\ updSkipped' = [updSkipped EXCEPT ![u] = @ \cup {c}]
                      /\ updTodo' = [updTodo EXCEPT ![u] = @ \ {c}]
                      /\ UNCHANGED <<liveChan, updSent>>
  /\ UNCHANGED <<liveClients, liveClosed, livePc, liveCount, liveInit,
                 liveRLock, currentData, cachedJSONMessage, nextVer,
                 updPc, updCount, updMsg>>

BroadcastSend(u, c) ==
  /\ LiveFrame
  /\ UNCHANGED <<historyCalls, liveSeen>>
  /\ updPc[u] = "loop"
  /\ c \in updTodo[u]
  /\ updTodo' = [updTodo EXCEPT ![u] = @ \ {c}]
  /\ IF liveClosed[c]
       THEN /\ livePanic' = TRUE
            /\ UNCHANGED <<liveChan, updSent, updSkipped>>
       ELSE /\ livePanic' = livePanic
            /\ IF Len(liveChan[c]) < LiveChanCap
                 THEN /\ liveChan' = [liveChan EXCEPT ![c] = Append(@, updMsg[u])]
                      /\ updSent' = [updSent EXCEPT ![u] = @ \cup {c}]
                      /\ updSkipped' = updSkipped
                 ELSE /\ updSkipped' = [updSkipped EXCEPT ![u] = @ \cup {c}]
                      /\ UNCHANGED <<liveChan, updSent>>
  /\ UNCHANGED <<liveClients, liveClosed, livePc, liveCount, liveInit,
                 liveRLock, currentData, cachedJSONMessage, nextVer,
                 updPc, updCount, updMsg>>

\* The range is exhausted: clientsMutex.RUnlock(), log the counts, answer 200.
UpdRUnlock(u) ==
  /\ LiveFrame
  /\ UNCHANGED <<historyCalls, liveSeen>>
  /\ updPc[u] = "loop"
  /\ updTodo[u] = {}
  /\ liveRLock' = liveRLock \ {u}
  /\ updPc' = [updPc EXCEPT ![u] = "done"]
  /\ updSent' = [updSent EXCEPT ![u] = {}]
  /\ updSkipped' = [updSkipped EXCEPT ![u] = {}]
  /\ updMsg' = [updMsg EXCEPT ![u] = NoMsg]
  /\ updCount' = [updCount EXCEPT ![u] = 0]
  /\ UNCHANGED <<liveClients, liveChan, liveClosed, livePc, liveCount,
                 liveInit, currentData, cachedJSONMessage, nextVer,
                 updTodo, livePanic>>

NextLive ==
  \/ \E h \in Streams : StreamRegister(h)
  \/ \E h \in Streams : StreamReadCache(h)
  \/ \E h \in Streams : StreamWriteInitial(h)
  \/ \E h \in Streams : StreamDeliver(h)
  \/ \E h \in Streams : StreamDisconnect(h)
  \/ \E h \in Streams : StreamClose(h)
  \/ \E u \in Updaters : UpdReject(u)
  \/ \E u \in Updaters : UpdStore(u)
  \/ \E u \in Updaters : UpdCount(u)
  \/ \E u \in Updaters : UpdEncode(u)
  \/ \E u \in Updaters : UpdCache(u)
  \/ \E u \in Updaters : UpdRLock(u)
  \/ \E u \in Updaters : \E c \in Streams : BroadcastSend(u, c)
  \/ \E u \in Updaters : UpdRUnlock(u)

\* ================================================================ live: payload

\* The step belongs to the content side of UpdateLotteryData.
PayloadFrame ==
  pkg = "payload" /\ UNCHANGED <<pkg, liveVars, histVars, lkVars, verVars, wsVars,
                              chatVars>>

\* json.Unmarshal(body, &inputData): a key of the object sets its field, a
\* field without its key keeps the zero value "".
JsonUnmarshal(object) ==
  [f \in Fields |-> IF InputKey(f) \in DOMAIN object THEN object[InputKey(f)]
                                                     ELSE ""]

defaultVal(val) == IF val = "" THEN "--" ELSE val

defaultResult(val) == IF val = "" THEN "---" ELSE val

\* LotteryDataInput.ToLotteryData
ToLotteryData(input) ==
  [f \in Fields |->
     CASE f \in {"Live", "Set1200", "Value1200", "Set430", "Value430",
                 "Modern930", "Internet930", "Modern200", "Internet200"}
            -> defaultVal(input[f])
       [] f \in {"Result1200", "Result430"} -> defaultResult(input[f])
       [] OTHER -> input[f]]

\* live.Init: the default snapshot (Date is left at its zero value).
PayloadInit ==
  /\ reqBody \in IF pkg = "payload" THEN Bodies ELSE {BadBody}
  /\ payloadPc = "idle"
  /\ snapFields = [f \in Fields |->
       CASE f \in {"Live", "Set1200", "Value1200", "Set430", "Value430"} -> "--"
         [] f \in {"Result1200", "Result430", "Modern930", "Internet930",
                    "Modern200", "Internet200"} -> "---"
         [] f = "Status" -> "Off"
         [] f = "UpdateTime" -> "15:04:05 02/01/2006"
         [] OTHER -> ""]

\* UpdateLotteryData: json.Unmarshal fails: answer 400 and return.
PayloadReject ==
  /\ PayloadFrame
  /\ payloadPc = "idle"
  /\ ~reqBody.valid
  /\ payloadPc' = "rejected"
  /\ UNCHANGED <<reqBody, snapFields>>

\* UpdateLotteryData: newData := inputData.ToLotteryData(); currentData =
\* newData under the write lock.
PayloadStore ==
  /\ PayloadFrame
  /\ payloadPc = "idle"
  /\ reqBody.valid
  /\ snapFields' = ToLotteryData(JsonUnmarshal(reqBody.object))
  /\ payloadPc' = "stored"
  /\ UNCHANGED reqBody

NextPayload ==
  \/ PayloadReject
  \/ PayloadStore

\* ================================================================ history

HistFrame ==
  pkg = "history" /\ UNCHANGED <<pkg, liveVars, payloadVars, lkVars, verVars, wsVars,
                              chatVars>>

\* Values the "430" key of a request body may carry: none, the two
\* placeholders, and a drawn result.
Results430 == {"", "--", "---", "7"}

\* The zero time.Time: time.Since of it is at least a minute at every tick.
ZeroTime == 0 - TicksPerMinute

\* hour == 16 && minute >= 30 && minute < 35
InWindow(now) == now >= WindowFrom /\ now <= WindowTo

\* data.Result430 == "--" || data.Result430 == ""
NotReady(result) == result = "--" \/ result = ""

\* newData.Result430 for a request whose body carries r under "430".
NewResult430(r) ==
  ToLotteryData([f \in Fields |-> IF f = "Result430" THEN r ELSE "7"]).Result430

HistInit ==
  /\ clock = 0
  /\ lastCheckTime = ZeroTime
  /\ historyInserter \in IF pkg = "history" THEN BOOLEAN ELSE {TRUE}
  /\ histPc = [u \in Updaters |-> "idle"]
  /\ histNow = [u \in Updaters |-> 0]
  /\ histInput = [u \in Updaters |-> ""]
  /\ histLog = << >>

\* The wall clock advances.
HistTick ==
  /\ HistFrame
  /\ clock < MaxClock
  /\ clock' = clock + 1
  /\ UNCHANGED <<lastCheckTime, historyInserter, histPc, histNow, histInput,
                 histLog>>

\* UpdateLotteryData has stored newData and calls checkAndInsertHistory:
\* return when no callback is registered, when now is outside the window,
\* or when the evening result of newData is "--" or "".
HistStart(u, r) ==
  /\ HistFrame
  /\ histPc[u] = "idle"
  /\ \A v \in Updaters : v < u => histPc[v] # "idle"
  /\ histInput' = [histInput EXCEPT ![u] = r]
  /\ histNow' = [histNow EXCEPT ![u] = clock]
  /\ histPc' = [histPc EXCEPT ![u] =
       IF historyInserter /\ InWindow(clock) /\ ~NotReady(NewResult430(r))
         THEN "ready" ELSE "done"]
  /\ UNCHANGED <<clock, lastCheckTime, historyInserter, histLog>>

\* if time.Since(lastCheckTime) < time.Minute { return }
HistCheck(u) ==
  /\ HistFrame
  /\ histPc[u] = "ready"
  /\ histPc' = [histPc EXCEPT ![u] =
       IF clock - lastCheckTime < TicksPerMinute THEN "done" ELSE "passed"]
  /\ UNCHANGED <<clock, lastCheckTime, historyInserter, histNow, histInput,
                 histLog>>

\* lastCheckTime = now
HistMark(u) ==
  /\ HistFrame
  /\ histPc[u] = "passed"
  /\ lastCheckTime' = histNow[u]
  /\ histPc' = [histPc EXCEPT ![u] = "marked"]
  /\ UNCHANGED <<clock, historyInserter, histNow, histInput, histLog>>

\* historyInserter(data)
HistInsert(u) ==
  /\ HistFrame
  /\ histPc[u] = "marked"
  /\ histLog' = Append(histLog, [at |-> clock, input |-> histInput[u],
                                 result |-> NewResult430(histInput[u])])
  /\ histPc' = [histPc EXCEPT ![u] = "done"]
  /\ UNCHANGED <<clock, lastCheckTime, historyInserter, histNow, histInput>>

NextHistory ==
  \/ HistTick
  \/ \E u \in Updaters : \E r \in Results430 : HistStart(u, r)
  \/ \E u \in Updaters : HistCheck(u)
  \/ \E u \in Updaters : HistMark(u)
  \/ \E u \in Updaters : HistInsert(u)

\* ================================================================ locks

LkFrame ==
  pkg = "locks" /\ UNCHANGED <<pkg, liveVars, payloadVars, histVars, verVars, wsVars,
                            chatVars>>

\* dataMutex, clientsMutex, cachedJSONMutex
Mutexes == {"dataMutex", "clientsMutex", "cachedJSONMutex"}

\* The goroutines that serve requests of the package: UpdateLotteryData
\* (which calls broadcastUpdate), StreamLotteryData and GetCurrentData.
LkRoutines ==
  ({"UpdateLotteryData"} \X Updaters) \cup ({"StreamLotteryData"} \X Streams)
    \cup {<<"GetCurrentData", 1>>}

Nobody == <<"", 0>>

\* The lock operations of UpdateLotteryData in program order, those of
\* broadcastUpdate included with the range loop under clientsMutex.RLock
\* ending the list.
UpdateLotteryDataLocks_Nested ==
  << <<"Lock", "dataMutex">>, <<"Unlock", "dataMutex">>,
     <<"RLock", "clientsMutex">>,
     <<"RLock", "dataMutex">>, <<"RUnlock", "dataMutex">>,
     <<"Lock", "cachedJSONMutex">>, <<"Unlock", "cachedJSONMutex">>,
     <<"RUnlock", "clientsMutex">> >>

UpdateLotteryDataLocks ==
  << <<"Lock", "dataMutex">>, <<"Unlock", "dataMutex">>,
     <<"RLock", "clientsMutex">>, <<"RUnlock", "clientsMutex">>,
     <<"RLock", "dataMutex">>, <<"RUnlock", "dataMutex">>,
     <<"Lock", "cachedJSONMutex">>, <<"Unlock", "cachedJSONMutex">>,
     <<"RLock", "clientsMutex">>, <<"RUnlock", "clientsMutex">> >>

\* The lock operations of StreamLotteryData in program order: register,
\* read the cache, encode the snapshot (skipped when the cache was not
\* empty), and on disconnect delete.
StreamLotteryDataLocks ==
  << <<"Lock", "clientsMutex">>, <<"Unlock", "clientsMutex">>,
     <<"RLock", "cachedJSONMutex">>, <<"RUnlock", "cachedJSONMutex">>,
     <<"RLock", "dataMutex">>, <<"RUnlock", "dataMutex">>,
     <<"Lock", "clientsMutex">>, <<"Unlock", "clientsMutex">> >>

GetCurrentDataLocks == << <<"RLock", "dataMutex">>, <<"RUnlock", "dataMutex">> >>

LkProgram(g) ==
  CASE g[1] = "UpdateLotteryData" -> UpdateLotteryDataLocks
    [] g[1] = "StreamLotteryData" -> StreamLotteryDataLocks
    [] OTHER -> GetCurrentDataLocks

LkRunning(g) == lkPc[g] < Len(LkProgram(g))

\* The operation goroutine g performs next.
LkOp(g) == LkProgram(g)[lkPc[g] + 1]

\* The locks goroutine g holds, shared or exclusive.
LkHeld(g) == {l \in Mutexes : lkWriter[l] = g \/ g \in lkReaders[l]}

\* Goroutine g is inside a critical section that assigns to the snapshot:
\* currentData = newData in UpdateLotteryData (after its first lock
\* operation), currentData.ViewCount = clientCount in broadcastUpdate and
\* in StreamLotteryData (after the fifth lock operation of either).
LkWritesSnapshot(g) ==
  \/ g[1] = "UpdateLotteryData" /\ lkPc[g] \in {1, 5}
  \/ g[1] = "StreamLotteryData" /\ lkPc[g] = 5

\* Goroutine g is inside a critical section that reads the snapshot:
\* data := currentData in GetCurrentData, the encoding of currentData in
\* broadcastUpdate and in StreamLotteryData.
LkReadsSnapshot(g) ==
  \/ g[1] = "GetCurrentData" /\ lkPc[g] = 1
  \/ g[1] = "UpdateLotteryData" /\ lkPc[g] = 5
  \/ g[1] = "StreamLotteryData" /\ lkPc[g] = 5

\* Handlers of one endpoint are numbered in order of arrival.
LkArrived(g) ==
  \A h \in LkRoutines : (h[1] = g[1] /\ h[2] < g[2]) => lkPc[h] > 0

LkInit ==
  /\ lkPc = [g \in LkRoutines |-> 0]
  /\ lkWriter = [l \in Mutexes |-> Nobody]
  /\ lkReaders = [l \in Mutexes |-> {}]
  /\ lkPending = [l \in Mutexes |-> {}]
  /\ lkCached = FALSE

\* m.Lock() is called: the goroutine waits for the lock, and from now on
\* RLock calls on m wait too (sync.RWMutex).
LkCallLock(g) ==
  /\ LkFrame
  /\ LkRunning(g)
  /\ LkArrived(g)
  /\ LkOp(g)[1] = "Lock"
  /\ g \notin lkPending[LkOp(g)[2]]
  /\ lkPending' = [lkPending EXCEPT ![LkOp(g)[2]] = @ \cup {g}]
  /\ UNCHANGED <<lkPc, lkWriter, lkReaders, lkCached>>

\* m.Lock() returns: no goroutine holds m.
LkLock(g) ==
  /\ LkFrame
  /\ LkRunning(g)
  /\ LkOp(g)[1] = "Lock"
  /\ g \in lkPending[LkOp(g)[2]]
  /\ lkWriter[LkOp(g)[2]] = Nobody
  /\ lkReaders[LkOp(g)[2]] = {}
  /\ lkPending' = [lkPending EXCEPT ![LkOp(g)[2]] = @ \ {g}]
  /\ lkWriter' = [lkWriter EXCEPT ![LkOp(g)[2]] = g]
  /\ lkPc' = [lkPc EXCEPT ![g] = @ + 1]
  /\ UNCHANGED <<lkReaders, lkCached>>

\* m.RLock() returns: no goroutine holds m exclusively or waits to.
LkRLock(g) ==
  /\ LkFrame
  /\ LkRunning(g)
  /\ LkArrived(g)
  /\ LkOp(g)[1] = "RLock"
  /\ lkWriter[LkOp(g)[2]] = Nobody
  /\ lkPending[LkOp(g)[2]] = {}
  /\ lkReaders' = [lkReaders EXCEPT ![LkOp(g)[2]] = @ \cup {g}]
  /\ lkPc' = [lkPc EXCEPT ![g] = @ + 1]
  /\ UNCHANGED <<lkWriter, lkPending, lkCached>>

\* m.Unlock(), after the statements of the critical section:
\* cachedJSONMessage = message in broadcastUpdate.
LkUnlock(g) ==
  /\ LkFrame
  /\ LkRunning(g)
  /\ LkOp(g)[1] = "Unlock"
  /\ lkWriter' = [lkWriter EXCEPT ![LkOp(g)[2]] = Nobody]
  /\ lkCached' = (lkCached \/ LkOp(g)[2] = "cachedJSONMutex")
  /\ lkPc' = [lkPc EXCEPT ![g] = @ + 1]
  /\ UNCHANGED <<lkReaders, lkPending>>

\* m.RUnlock(), after the statements of the critical section.  In
\* StreamLotteryData initialMessage := cachedJSONMessage, and
\* if initialMessage == "" encloses the dataMutex.RLock section that
\* follows: a handler that read a non-empty cache goes on to its loop.
LkRUnlock(g) ==
  /\ LkFrame
  /\ LkRunning(g)
  /\ LkOp(g)[1] = "RUnlock"
  /\ lkReaders' = [lkReaders EXCEPT ![LkOp(g)[2]] = @ \ {g}]
  /\ lkPc' = [lkPc EXCEPT ![g] =
       IF g[1] = "StreamLotteryData" /\ LkOp(g)[2] = "cachedJSONMutex" /\ lkCached
         THEN 6 ELSE @ + 1]
  /\ UNCHANGED <<lkWriter, lkPending, lkCached>>

NextLocks ==
  \/ \E g \in LkRoutines : LkCallLock(g)
  \/ \E g \in LkRoutines : LkLock(g)
  \/ \E g \in LkRoutines : LkRLock(g)
  \/ \E g \in LkRoutines : LkUnlock(g)
  \/ \E g \in LkRoutines : LkRUnlock(g)

\* ================================================================ version

VerFrame ==
  pkg = "version" /\ UNCHANGED <<pkg, liveVars, payloadVars, histVars, lkVars, wsVars,
                              chatVars>>

\* The numbers a dotted version is made of (0, 1, 9, 10: one and two digits).
VersionParts == {n \in 0..MaxVersionPart : n <= 1 \/ n >= MaxVersionPart - 1}

\* major.minor.patch as a tuple of numbers
Versions == [1..VersionLen -> VersionParts]

\* The bytes of the decimal notation of n.
Digits(n) ==
  IF n < 10 THEN <<48 + n>> ELSE <<48 + (n \div 10), 48 + (n % 10)>>

\* The string of a dotted version ("1.10.0"), as the bytes of a Go string.
RECURSIVE VersionString(_)
VersionString(v) ==
  IF Len(v) = 1
    THEN Digits(v[1])
    ELSE Digits(v[1]) \o <<46>> \o VersionString(Tail(v))

\* Go's < on strings: byte by byte, a proper prefix is smaller.
RECURSIVE StringLess(_, _)
StringLess(a, b) ==
  IF b = << >> THEN FALSE
  ELSE IF a = << >> THEN TRUE
  ELSE IF a[1] # b[1] THEN a[1] < b[1]
  ELSE StringLess(Tail(a), Tail(b))

\* func compareVersions: return currentVersion < minimumVersion
compareVersions(currentVersion, minimumVersion) ==
  StringLess(currentVersion, minimumVersion)

\* insertDefaultConfig: minimum_version "1.0.0"; no version check yet.
VerInit ==
  /\ cfgMinimumVersion = VersionString([i \in 1..VersionLen |-> IF i = 1 THEN 1 ELSE 0])
  /\ reqVersion = << >>
  /\ updateRequired = FALSE

\* UpdateAppConfig: UPDATE app_config SET ... minimum_version=? ...
UpdateAppConfig(m) ==
  /\ VerFrame
  /\ cfgMinimumVersion' = VersionString(m)
  /\ UNCHANGED <<reqVersion, updateRequired>>

\* CheckVersion with ?version=v: reads the newest app_config row and answers
\* update_required = compareVersions(req.Version, config.MinimumVersion).
CheckVersion(v) ==
  /\ VerFrame
  /\ reqVersion' = VersionString(v)
  /\ updateRequired' = compareVersions(VersionString(v), cfgMinimumVersion)
  /\ UNCHANGED cfgMinimumVersion

NextVersion ==
  \/ \E m \in Versions : UpdateAppConfig(m)
  \/ \E v \in Versions : CheckVersion(v)

\* ================================================================ chatws

\* An ID token as authenticateClientWithToken sees it.  kind "genuine": a
\* JWT issued by the identity provider for user sub; "forged": three
\* base64 parts whose payload names sub, with no valid signature (or
\* expired); "malformed": not three parts, an undecodable payload, or a
\* payload without "sub".
WSTokenKinds == {"genuine", "forged", "malformed"}

\* The tokens of Android clients that signed in: connection c is user
\* ((c - 1) mod NumWSUsers) + 1.
WSSignedIn ==
  [c \in WSConns |-> [kind |-> "genuine", sub |-> ((c - 1) % NumWSUsers) + 1]]

\* client.UserID: claims["sub"] of the token.
WSUserOf(c) == wsToken[c].sub

\* clientsMutex.Lock() is granted when handleBroadcast is not inside its
\* RLock section; every other critical section of the package is one step.
WSCanLock == hbPc # "loop"

\* Conn is usable until writePump returns (its deferred c.Conn.Close()).
WSConnOpen(c) == wpPc[c] # "exit"

\* The step belongs to package chatws; the other packages' state is
\* untouched, and no statement of the package writes the block table or
\* the ban list.
WSBaseFrame ==
  /\ pkg = "chatws"
  /\ UNCHANGED <<pkg, liveVars, sideVars, chatVars, wsStore, wsToken, wsTrace>>

\* ... and it neither puts an event on the broadcast channel nor takes one
\* to a client.
WSAuthFrame == WSBaseFrame /\ UNCHANGED <<wsOrder, wsSeen>>

\* ... and it is past the authentication of its connection.
WSChatFrame == WSAuthFrame /\ UNCHANGED wsAuthErr

\* ... and it is not a step of handleChatMessage.
WSFrame == WSChatFrame /\ UNCHANGED wsMessages

\* A step that puts an event on the broadcast channel, or takes one to a
\* client, outside authentication and handleChatMessage.
WSBcastFrame == WSBaseFrame /\ UNCHANGED <<wsAuthErr, wsMessages>>

\* broadcast <- eventJSON
WSPut(event) ==
  /\ broadcast' = Append(broadcast, event)
  /\ wsOrder' = IF wsTrace THEN Append(wsOrder, event) ELSE wsOrder
  /\ wsSeen' = wsSeen

\* The package's variables when InitDB returns.
WSStart ==
  /\ wsClients = {}
  /\ wsSend = [c \in WSConns |-> << >>]
  /\ wsClosed = [c \in WSConns |-> FALSE]
  /\ wsCloseCount = [c \in WSConns |-> 0]
  /\ wsPc = [c \in WSConns |-> "idle"]
  /\ wpPc = [c \in WSConns |-> "off"]
  /\ wsList = [c \in WSConns |-> {}]
  /\ wsCnt = [c \in WSConns |-> 0]
  /\ broadcast = << >>
  /\ hbPc = "recv"
  /\ hbMsg = [type |-> "none", from |-> 0, count |-> 0]
  /\ hbTodo = {}
  /\ hbSent = {}
  /\ hbDropped = {}
  /\ wsIsOnline = [u \in WSUsers |-> FALSE]
  /\ wsLeft = [c \in WSConns |-> 0]
  /\ wsPanic = {}
  /\ wsFrames = 0
  /\ wsAuthErr = {}
  /\ wsMessages = {}
  /\ wsOrder = << >>
  /\ wsSeen = [c \in WSConns |-> << >>]

\* A database the server has created itself: both stores are empty.
WSInit ==
  /\ WSStart
  /\ wsTrace = FALSE
  /\ wsBlocked = {}
  /\ wsBanned = {}
  /\ wsToken = WSSignedIn

\* HandleWebSocket: authenticateClientWithToken returns an error (it does so
\* before its upsert); write the error frame, close the connection, return.
WSAuthFail_Upsert(c) ==
  /\ WSAuthFrame
  /\ UNCHANGED wsMessages
  /\ wsPc[c] = "idle"
  /\ \A d \in WSConns : d < c => wsPc[d] # "idle"
  /\ wsToken[c].kind = "malformed"
  /\ wsAuthErr' = wsAuthErr \cup {c}
  /\ wsPc' = [wsPc EXCEPT ![c] = "authfailed"]
  /\ wsIsOnline' = [wsIsOnline EXCEPT ![WSUserOf(c)] = TRUE]
  /\ UNCHANGED <<wsRegVars, wpPc, wsLocalVars, broadcast, wsHbVars,
                 wsGhostVars>>

WSAuthFail(c) ==
  /\ WSAuthFrame
  /\ UNCHANGED wsMessages
  /\ wsPc[c] = "idle"
  /\ \A d \in WSConns : d < c => wsPc[d] # "idle"
  /\ wsToken[c].kind = "malformed"
  /\ wsAuthErr' = wsAuthErr \cup {c}
  /\ wsPc' = [wsPc EXCEPT ![c] = "authfailed"]
  /\ UNCHANGED <<wsRegVars, wpPc, wsLocalVars, broadcast, wsHbVars,
                 wsIsOnline, wsGhostVars>>

\* HandleWebSocket: authentication succeeded (it sets is_online in its
\* upsert); register the client under the write lock.
WSRegister(c) ==
  /\ WSFrame
  /\ wsPc[c] = "idle"
  /\ wsToken[c].kind # "malformed"
  /\ \A d \in WSConns : d < c => wsPc[d] # "idle"
  /\ WSCanLock
  /\ wsClients' = wsClients \cup {c}
  /\ wsIsOnline' = [wsIsOnline EXCEPT ![WSUserOf(c)] = TRUE]
  /\ wsPc' = [wsPc EXCEPT ![c] = "registered"]
  /\ UNCHANGED <<wsSend, wsClosed, wsCloseCount, wpPc, wsLocalVars, broadcast,
                 wsHbVars, wsGhostVars>>

\* updateUserOnlineStatus(client.UserID, true); then the first half of
\* sendOnlineUsersToClient: collect the other identities under RLock.
WSListOnline(c) ==
  /\ WSFrame
  /\ wsPc[c] = "registered"
  /\ wsIsOnline' = [wsIsOnline EXCEPT ![WSUserOf(c)] = TRUE]
  /\ wsList' = [wsList EXCEPT
       ![c] = {d \in wsClients : WSUserOf(d) # WSUserOf(c)}]
  /\ wsPc' = [wsPc EXCEPT ![c] = "listed"]
  /\ UNCHANGED <<wsRegVars, wpPc, wsCnt, broadcast, wsHbVars, wsGhostVars>>

\* Second half of sendOnlineUsersToClient: len(clients) read without the
\* lock, then select { case client.Send <- eventJSON: default: }.  The
\* send panics when Send is closed; the panic ends HandleWebSocket
\* before readPump has installed its deferred disconnect.
WSSendOnline(c) ==
  /\ WSFrame
  /\ wsPc[c] = "listed"
  /\ wsList' = [wsList EXCEPT ![c] = {}]
  /\ IF wsClosed[c]
       THEN /\ wsPanic' = wsPanic \cup {<<"handler", c>>}
            /\ wsPc' = [wsPc EXCEPT ![c] = "crashed"]
            /\ UNCHANGED wsSend
       ELSE /\ wsPanic' = wsPanic
            /\ wsPc' = [wsPc EXCEPT ![c] = "sentonline"]
            /\ IF Len(wsSend[c]) < WSSendCap
                 THEN wsSend' = [wsSend EXCEPT ![c] = Append(@,
                        [type |-> "online", from |-> c,
                         count |-> Cardinality(wsClients), users |-> wsList[c]])]
                 ELSE wsSend' = wsSend
  /\ UNCHANGED <<wsClients, wsClosed, wsCloseCount, wpPc, wsCnt, broadcast,
                 wsHbVars, wsIsOnline, wsLeft, wsFrames>>

\* broadcastUserJoined: count := getOnlineCount() under RLock.
WSJoinCount(c) ==
  /\ WSFrame
  /\ wsPc[c] = "sentonline"
  /\ wsCnt' = [wsCnt EXCEPT ![c] = Cardinality(wsClients)]
  /\ wsPc' = [wsPc EXCEPT ![c] = "joincount"]
  /\ UNCHANGED <<wsRegVars, wpPc, wsList, broadcast, wsHbVars, wsIsOnline,
                 wsGhostVars>>

\* broadcast <- eventJSON (blocks while broadcast is full); go writePump();
\* readPump starts reading.
WSJoinSend(c) ==
  /\ WSBcastFrame
  /\ wsPc[c] = "joincount"
  /\ Len(broadcast) < WSBroadcastCap
  /\ WSPut([type |-> "user_joined", from |-> c, count |-> wsCnt[c]])
  /\ wsCnt' = [wsCnt EXCEPT ![c] = 0]
  /\ wpPc' = [wpPc EXCEPT ![c] = "run"]
  /\ wsPc' = [wsPc EXCEPT ![c] = "read"]
  /\ UNCHANGED <<wsRegVars, wsList, wsHbVars, wsIsOnline, wsGhostVars>>

\* readPump: ReadJSON fails (peer closed, read deadline passed, or Conn
\* closed by writePump): break, the deferred disconnect runs.
WSReadError(c) ==
  /\ WSFrame
  /\ wsPc[c] = "read"
  /\ wsPc' = [wsPc EXCEPT ![c] = "disc"]
  /\ UNCHANGED <<wsRegVars, wpPc, wsLocalVars, broadcast, wsHbVars,
                 wsIsOnline, wsGhostVars>>

\* readPump reads a malformed frame.  ReadJSON returns an error for a
\* frame it cannot decode into the map, and the loop breaks (the deferred
\* disconnect runs); a frame without a string "type" is skipped by
\* continue, and a type the switch does not know falls through it.
WSReadMalformed(c, kind) ==
  /\ WSFrame
  /\ wsPc[c] = "read"
  /\ WSConnOpen(c)
  /\ kind \in WSMalformed
  /\ wsFrames < MaxWSFrames
  /\ wsFrames' = wsFrames + 1
  /\ wsPc' = [wsPc EXCEPT ![c] = IF kind = "undecodable" THEN "disc" ELSE "read"]
  /\ UNCHANGED <<wsRegVars, wpPc, wsLocalVars, broadcast, wsHbVars,
                 wsIsOnline, wsLeft, wsPanic>>

WSChatInvalid_Broadcast(c, kind) ==
  /\ WSChatFrame
  /\ wsPc[c] = "read"
  /\ WSConnOpen(c)
  /\ kind \in WSBadMessages
  /\ wsFrames < MaxWSFrames
  /\ Len(broadcast) < WSBroadcastCap
  /\ wsFrames' = wsFrames + 1
  /\ wsMessages' = wsMessages
  /\ broadcast' = Append(broadcast,
       [type |-> "message", from |-> c, count |-> wsFrames + 1])
  /\ UNCHANGED <<wsRegVars, wsPc, wpPc, wsLocalVars, wsHbVars, wsIsOnline,
                 wsLeft, wsPanic>>

\* readPump reads {"type":"message"} and handleChatMessage returns early:
\* "message" is no string or is "", or the INSERT fails.  readPump reads on.
WSChatInvalid(c, kind) ==
  /\ WSChatFrame
  /\ wsPc[c] = "read"
  /\ WSConnOpen(c)
  /\ kind \in WSBadMessages
  /\ wsFrames < MaxWSFrames
  /\ wsFrames' = wsFrames + 1
  /\ wsMessages' = wsMessages
  /\ UNCHANGED <<wsRegVars, wsPc, wpPc, wsLocalVars, broadcast, wsHbVars,
                 wsIsOnline, wsLeft, wsPanic>>

\* readPump reads {"type":"message"} with a non-empty text;
\* handleChatMessage records it and does broadcast <- eventJSON.
WSChatMessage(c) ==
  /\ WSBaseFrame
  /\ UNCHANGED wsAuthErr
  /\ wsPc[c] = "read"
  /\ WSConnOpen(c)
  /\ wsFrames < MaxWSFrames
  /\ Len(broadcast) < WSBroadcastCap
  /\ wsFrames' = wsFrames + 1
  /\ wsMessages' = wsMessages \cup {wsFrames + 1}
  /\ WSPut([type |-> "message", from |-> c, count |-> wsFrames + 1])
  /\ UNCHANGED <<wsRegVars, wsPc, wpPc, wsLocalVars, wsHbVars, wsIsOnline,
                 wsLeft, wsPanic>>

\* readPump reads {"type":"ping"}.
WSReadPing(c) ==
  /\ WSFrame
  /\ wsPc[c] = "read"
  /\ WSConnOpen(c)
  /\ wsFrames < MaxWSFrames
  /\ wsFrames' = wsFrames + 1
  /\ wsPc' = [wsPc EXCEPT ![c] = "pong"]
  /\ UNCHANGED <<wsRegVars, wpPc, wsLocalVars, broadcast, wsHbVars,
                 wsIsOnline, wsLeft, wsPanic>>

\* c.Send <- pong: a blocking send made without the registry lock.  It
\* waits while Send is full and panics when Send is closed; the panic
\* unwinds readPump through its deferred disconnect.
WSPong(c) ==
  /\ WSFrame
  /\ wsPc[c] = "pong"
  /\ IF wsClosed[c]
       THEN /\ wsPanic' = wsPanic \cup {<<"handler", c>>}
            /\ wsPc' = [wsPc EXCEPT ![c] = "disc"]
            /\ UNCHANGED wsSend
       ELSE /\ Len(wsSend[c]) < WSSendCap
            /\ wsSend' = [wsSend EXCEPT ![c] = Append(@,
                 [type |-> "pong", from |-> c, count |-> 0])]
            /\ wsPc' = [wsPc EXCEPT ![c] = "read"]
            /\ wsPanic' = wsPanic
  /\ UNCHANGED <<wsClients, wsClosed, wsCloseCount, wpPc, wsLocalVars,
                 broadcast, wsHbVars, wsIsOnline, wsLeft, wsFrames>>

\* disconnect, the locked part: if _, ok := clients[c]; ok { delete; close }.
WSDisconnect_NoGuard(c) ==
  /\ WSFrame
  /\ wsPc[c] = "disc"
  /\ WSCanLock
  /\ wsClients' = wsClients \ {c}
  /\ wsClosed' = [wsClosed EXCEPT ![c] = TRUE]
  /\ wsCloseCount' = [wsCloseCount EXCEPT ![c] = @ + 1]
  /\ wsPanic' = IF wsClosed[c] THEN wsPanic \cup {<<"handler", c>>} ELSE wsPanic
  /\ wsPc' = [wsPc EXCEPT ![c] = "removed"]
  /\ UNCHANGED <<wsSend, wpPc, wsLocalVars, broadcast, wsHbVars, wsIsOnline,
                 wsLeft, wsFrames>>

WSDisconnect_KeepEntry(c) ==
  /\ WSFrame
  /\ wsPc[c] = "disc"
  /\ WSCanLock
  /\ IF c \in wsClients
       THEN /\ wsClients' = wsClients
            /\ wsClosed' = [wsClosed EXCEPT ![c] = TRUE]
            /\ wsCloseCount' = [wsCloseCount EXCEPT ![c] = @ + 1]
            /\ wsPanic' = IF wsClosed[c] THEN wsPanic \cup {<<"handler", c>>}
                                         ELSE wsPanic
       ELSE UNCHANGED <<wsClients, wsClosed, wsCloseCount, wsPanic>>
  /\ wsPc' = [wsPc EXCEPT ![c] = "removed"]
  /\ UNCHANGED <<wsSend, wpPc, wsLocalVars, broadcast, wsHbVars, wsIsOnline,
                 wsLeft, wsFrames>>

WSDisconnect(c) ==
  /\ WSFrame
  /\ wsPc[c] = "disc"
  /\ WSCanLock
  /\ IF c \in wsClients
       THEN /\ wsClients' = wsClients \ {c}
            /\ wsClosed' = [wsClosed EXCEPT ![c] = TRUE]
            /\ wsCloseCount' = [wsCloseCount EXCEPT ![c] = @ + 1]
            /\ wsPanic' = IF wsClosed[c] THEN wsPanic \cup {<<"handler", c>>}
                                         ELSE wsPanic
       ELSE UNCHANGED <<wsClients, wsClosed, wsCloseCount, wsPanic>>
  /\ wsPc' = [wsPc EXCEPT ![c] = "removed"]
  /\ UNCHANGED <<wsSend, wpPc, wsLocalVars, broadcast, wsHbVars, wsIsOnline,
                 wsLeft, wsFrames>>

\* disconnect: updateUserOnlineStatus(c.UserID, false); broadcastUserLeft:
\* count := getOnlineCount() under RLock.
WSLeftCount(c) ==
  /\ WSFrame
  /\ wsPc[c] = "removed"
  /\ wsIsOnline' = [wsIsOnline EXCEPT ![WSUserOf(c)] = FALSE]
  /\ wsCnt' = [wsCnt EXCEPT ![c] = Cardinality(wsClients)]
  /\ wsPc' = [wsPc EXCEPT ![c] = "leftcount"]
  /\ UNCHANGED <<wsRegVars, wpPc, wsList, broadcast, wsHbVars, wsGhostVars>>

\* broadcastUserLeft: broadcast <- eventJSON (blocks while broadcast is
\* full); disconnect and readPump return.
WSLeftSend(c) ==
  /\ WSBcastFrame
  /\ wsPc[c] = "leftcount"
  /\ Len(broadcast) < WSBroadcastCap
  /\ WSPut([type |-> "user_left", from |-> c, count |-> wsCnt[c]])
  /\ wsCnt' = [wsCnt EXCEPT ![c] = 0]
  /\ wsLeft' = [wsLeft EXCEPT ![c] = @ + 1]
  /\ wsPc' = [wsPc EXCEPT ![c] = "done"]
  /\ UNCHANGED <<wsRegVars, wpPc, wsList, wsHbVars, wsIsOnline, wsPanic,
                 wsFrames>>

\* writePump: case message, ok := <-c.Send with ok; WriteMessage succeeds.
WPDeliver(c) ==
  /\ WSFrame
  /\ wpPc[c] = "run"
  /\ wsSend[c] # << >>
  /\ wsSend' = [wsSend EXCEPT ![c] = Tail(@)]
  /\ UNCHANGED <<wsClients, wsClosed, wsCloseCount, wsPc, wpPc, wsLocalVars,
                 broadcast, wsHbVars, wsIsOnline, wsGhostVars>>

\* writePump: WriteMessage fails, for a message taken from Send (taken) or
\* for the ticker's ping; return, the deferred c.Conn.Close() runs.
WPWriteFail(c) ==
  /\ WSFrame
  /\ wpPc[c] = "run"
  /\ \E taken \in BOOLEAN :
       /\ taken => wsSend[c] # << >>
       /\ wsSend' = [wsSend EXCEPT ![c] = IF taken THEN Tail(@) ELSE @]
  /\ wpPc' = [wpPc EXCEPT ![c] = "exit"]
  /\ UNCHANGED <<wsClients, wsClosed, wsCloseCount, wsPc, wsLocalVars,
                 broadcast, wsHbVars, wsIsOnline, wsGhostVars>>

\* writePump: <-c.Send yields !ok (closed and drained): write the close
\* frame, return, the deferred c.Conn.Close() runs.
WPClosed(c) ==
  /\ WSFrame
  /\ wpPc[c] = "run"
  /\ wsSend[c] = << >>
  /\ wsClosed[c]
  /\ wpPc' = [wpPc EXCEPT ![c] = "exit"]
  /\ UNCHANGED <<wsRegVars, wsPc, wsLocalVars, broadcast, wsHbVars,
                 wsIsOnline, wsGhostVars>>

\* A dispatcher that takes the next message before every client was visited
\* and puts the current one back on the queue.
HBReceive_Requeue ==
  /\ WSFrame
  /\ broadcast # << >>
  /\ IF hbPc = "loop"
       THEN /\ hbMsg' = Head(broadcast)
            /\ broadcast' = Append(Tail(broadcast), hbMsg)
            /\ UNCHANGED <<hbTodo, hbSent, hbDropped>>
       ELSE /\ hbPc = "recv"
            /\ hbMsg' = Head(broadcast)
            /\ broadcast' = Tail(broadcast)
            /\ hbTodo' = wsClients
            /\ hbSent' = {}
            /\ hbDropped' = {}
  /\ hbPc' = "loop"
  /\ UNCHANGED <<wsRegVars, wsPc, wpPc, wsLocalVars, wsIsOnline, wsGhostVars>>

\* handleBroadcast: message := <-broadcast; clientsMutex.RLock(); start
\* ranging over clients.
HBReceive ==
  /\ WSFrame
  /\ hbPc = "recv"
  /\ broadcast # << >>
  /\ hbMsg' = Head(broadcast)
  /\ broadcast' = Tail(broadcast)
  /\ hbTodo' = wsClients
  /\ hbSent' = {}
  /\ hbDropped' = {}
  /\ hbPc' = "loop"
  /\ UNCHANGED <<wsRegVars, wsPc, wpPc, wsLocalVars, wsIsOnline, wsGhostVars>>

\* One iteration: select { case client.Send <- message:
\* default: close(client.Send); delete(clients, client) }.
HBSend_KeepEntry(c) ==
  /\ WSFrame
  /\ hbPc = "loop"
  /\ c \in hbTodo
  /\ hbTodo' = hbTodo \ {c}
  /\ IF wsClosed[c]
       THEN /\ wsPanic' = wsPanic \cup {<<"dispatcher", 0>>}
            /\ UNCHANGED <<wsSend, wsClients, wsClosed, wsCloseCount, hbSent,
                           hbDropped>>
       ELSE /\ wsPanic' = wsPanic
            /\ IF Len(wsSend[c]) < WSSendCap
                 THEN /\ wsSend' = [wsSend EXCEPT ![c] = Append(@, hbMsg)]
                      /\ hbSent' = hbSent \cup {c}
                      /\ UNCHANGED <<wsClients, wsClosed, wsCloseCount, hbDropped>>
                 ELSE /\ wsClosed' = [wsClosed EXCEPT ![c] = TRUE]
                      /\ wsCloseCount' = [wsCloseCount EXCEPT ![c] = @ + 1]
                      /\ hbDropped' = hbDropped \cup {c}
                      /\ UNCHANGED <<wsSend, hbSent, wsClients>>
  /\ UNCHANGED <<hbPc, hbMsg, wsPc, wpPc, wsLocalVars, broadcast, wsIsOnline,
                 wsLeft, wsFrames>>

HBSend(c) ==
  /\ WSBcastFrame
  /\ hbPc = "loop"
  /\ c \in hbTodo
  /\ hbTodo' = hbTodo \ {c}
  /\ wsOrder' = wsOrder
  /\ wsSeen' = IF wsTrace /\ ~wsClosed[c] /\ Len(wsSend[c]) < WSSendCap
                 THEN [wsSeen EXCEPT ![c] = Append(@, hbMsg)]
                 ELSE wsSeen
  /\ IF wsClosed[c]
       THEN /\ wsPanic' = wsPanic \cup {<<"dispatcher", 0>>}
            /\ UNCHANGED <<wsSend, wsClients, wsClosed, wsCloseCount, hbSent,
                           hbDropped>>
       ELSE /\ wsPanic' = wsPanic
            /\ IF Len(wsSend[c]) < WSSendCap
                 THEN /\ wsSend' = [wsSend EXCEPT ![c] = Append(@, hbMsg)]
                      /\ hbSent' = hbSent \cup {c}
                      /\ UNCHANGED <<wsClients, wsClosed, wsCloseCount, hbDropped>>
                 ELSE /\ wsClosed' = [wsClosed EXCEPT ![c] = TRUE]
                      /\ wsCloseCount' = [wsCloseCount EXCEPT ![c] = @ + 1]
                      /\ wsClients' = wsClients \ {c}
                      /\ hbDropped' = hbDropped \cup {c}
                      /\ UNCHANGED <<wsSend, hbSent>>
  /\ UNCHANGED <<hbPc, hbMsg, wsPc, wpPc, wsLocalVars, broadcast, wsIsOnline,
                 wsLeft, wsFrames>>

\* The range is exhausted: clientsMutex.RUnlock(); wait for the next message.
HBUnlock ==
  /\ WSFrame
  /\ hbPc = "loop"
  /\ hbTodo = {}
  /\ hbPc' = "recv"
  /\ hbSent' = {}
  /\ hbDropped' = {}
  /\ hbMsg' = [type |-> "none", from |-> 0, count |-> 0]
  /\ UNCHANGED <<wsRegVars, wsPc, wpPc, wsLocalVars, broadcast, hbTodo,
                 wsIsOnline, wsGhostVars>>

NextWS ==
  \/ \E c \in WSConns : WSRegister(c)
  \/ \E c \in WSConns : WSListOnline(c)
  \/ \E c \in WSConns : WSSendOnline(c)
  \/ \E c \in WSConns : WSJoinCount(c)
  \/ \E c \in WSConns : WSJoinSend(c)
  \/ \E c \in WSConns : WSReadError(c)
  \/ \E c \in WSConns : \E kind \in WSMalformed : WSReadMalformed(c, kind)
  \/ \E c \in WSConns : \E kind \in WSBadMessages : WSChatInvalid(c, kind)
  \/ \E c \in WSConns : WSChatMessage(c)
  \/ \E c \in WSConns : WSReadPing(c)
  \/ \E c \in WSConns : WSPong(c)
  \/ \E c \in WSConns : WSDisconnect(c)
  \/ \E c \in WSConns : WSLeftCount(c)
  \/ \E c \in WSConns : WSLeftSend(c)
  \/ \E c \in WSConns : WPDeliver(c)
  \/ \E c \in WSConns : WPWriteFail(c)
  \/ \E c \in WSConns : WPClosed(c)
  \/ HBReceive
  \/ \E c \in WSConns : HBSend(c)
  \/ HBUnlock

\* ================================================================ chat

\* clientsMutex.Lock() is granted when no goroutine holds RLock.
ChatCanLock == chatRLock = {}

\* The connections the map holds (range clients).
ChatRegistered == {chatClients[u] : u \in ChatUsers} \ {0}

\* rows of SELECT ... FROM chat_users WHERE is_online = 1
ChatOnlineUsers == {u \in ChatUsers : chatIsOnline[u]}

\* The step belongs to package chat; the other packages' state is untouched.
AuthFrame ==
  pkg = "chat" /\ UNCHANGED <<pkg, liveVars, sideVars, wsVars>>

\* ... and it is not a step of googleAuthHandler.
ChatFrame == AuthFrame /\ UNCHANGED authVars

ChatInit ==
  /\ chatClients = [u \in ChatUsers |-> 0]
  /\ chatChan = [k \in ChatConns |-> << >>]
  /\ chatUid = [k \in ChatConns |-> 0]
  /\ chatPc = [k \in ChatConns |-> "idle"]
  /\ chatEv = [k \in ChatConns |-> {}]
  /\ chatTodo = [k \in ChatConns |-> {}]
  /\ chatRLock = {}
  /\ chatIsOnline = [u \in ChatUsers |-> FALSE]
  /\ smPc = "idle"
  /\ smFrom = 0
  /\ smTodo = {}
  /\ chatMsgs = 0
  /\ chatBlocks = {}
  /\ chatBanned = {}
  /\ smBlockedBy = {}
  /\ authPc = "idle"
  /\ authEv = {}
  /\ authTodo = {}
  /\ chatVerified = {}

\* main: GOOGLE_OAUTH_CLIENT_ID is not set; SetGoogleClientID is called with "".
ChatDefaultConfig == googleClientID = ""

\* sseStreamHandler: create the client and store it under its user id.
ChatRegister(k, u) ==
  /\ ChatFrame
  /\ UNCHANGED <<chatDB, smBlockedBy>>
  /\ chatPc[k] = "idle"
  /\ \A j \in ChatConns : j < k => chatPc[j] # "idle"
  /\ ChatCanLock
  /\ chatUid' = [chatUid EXCEPT ![k] = u]
  /\ chatClients' = [chatClients EXCEPT ![u] = k]
  /\ chatPc' = [chatPc EXCEPT ![k] = "registered"]
  /\ UNCHANGED <<chatChan, chatEv, chatTodo, chatRLock, chatIsOnline, smPc,
                 smFrom, smTodo, chatMsgs>>

\* UPDATE chat_users SET is_online = 1; broadcastOnlineStatus: query the
\* online users and build the event.
ChatSetOnline(k) ==
  /\ ChatFrame
  /\ UNCHANGED <<chatDB, smBlockedBy>>
  /\ chatPc[k] = "registered"
  /\ chatIsOnline' = [chatIsOnline EXCEPT ![chatUid[k]] = TRUE]
  /\ chatEv' = [chatEv EXCEPT ![k] = ChatOnlineUsers \cup {chatUid[k]}]
  /\ chatPc' = [chatPc EXCEPT ![k] = "joining"]
  /\ UNCHANGED <<chatClients, chatChan, chatUid, chatTodo, chatRLock, smPc,
                 smFrom, smTodo, chatMsgs>>

\* broadcastOnlineStatus: clientsMutex.RLock(); start ranging over clients.
ChatBcastLock(k) ==
  /\ ChatFrame
  /\ UNCHANGED <<chatDB, smBlockedBy>>
  /\ chatPc[k] \in {"joining", "leaving"}
  /\ chatRLock' = chatRLock \cup {<<"handler", k>>}
  /\ chatTodo' = [chatTodo EXCEPT ![k] = ChatRegistered]
  /\ chatPc' = [chatPc EXCEPT ![k] = IF chatPc[k] = "joining" THEN "joinloop"
                                                               ELSE "leaveloop"]
  /\ UNCHANGED <<chatClients, chatChan, chatUid, chatEv, chatIsOnline, smPc,
                 smFrom, smTodo, chatMsgs>>

\* One iteration: select { case client.Channel <- sseData: default: }.
ChatBcastSend_Drop(k, d) ==
  /\ ChatFrame
  /\ UNCHANGED <<chatDB, smBlockedBy>>
  /\ chatPc[k] \in {"joinloop", "leaveloop"}
  /\ d \in chatTodo[k]
  /\ chatTodo' = [chatTodo EXCEPT ![k] = @ \ {d}]
  /\ IF Len(chatChan[d]) < ChatChanCap
       THEN /\ chatChan' = [chatChan EXCEPT ![d] = Append(@,
                 [type |-> "online", users |-> chatEv[k]])]
            /\ chatClients' = chatClients
       ELSE /\ chatChan' = chatChan
            /\ chatClients' = [chatClients EXCEPT ![chatUid[d]] = 0]
  /\ UNCHANGED <<chatUid, chatPc, chatEv, chatRLock, chatIsOnline,
                 smPc, smFrom, smTodo, chatMsgs>>

ChatBcastSend(k, d) ==
  /\ ChatFrame
  /\ UNCHANGED <<chatDB, smBlockedBy>>
  /\ chatPc[k] \in {"joinloop", "leaveloop"}
  /\ d \in chatTodo[k]
  /\ chatTodo' = [chatTodo EXCEPT ![k] = @ \ {d}]
  /\ IF Len(chatChan[d]) < ChatChanCap
       THEN chatChan' = [chatChan EXCEPT ![d] = Append(@,
              [type |-> "online", users |-> chatEv[k]])]
       ELSE chatChan' = chatChan
  /\ UNCHANGED <<chatClients, chatUid, chatPc, chatEv, chatRLock, chatIsOnline,
                 smPc, smFrom, smTodo, chatMsgs>>

\* The range is exhausted: the deferred RUnlock runs.  On connect the
\* handler then writes the "connected" event and enters its select loop;
\* on disconnect it returns.
ChatBcastUnlock(k) ==
  /\ ChatFrame
  /\ UNCHANGED <<chatDB, smBlockedBy>>
  /\ chatPc[k] \in {"joinloop", "leaveloop"}
  /\ chatTodo[k] = {}
  /\ chatRLock' = chatRLock \ {<<"handler", k>>}
  /\ chatEv' = [chatEv EXCEPT ![k] = {}]
  /\ chatPc' = [chatPc EXCEPT ![k] = IF chatPc[k] = "joinloop" THEN "loop"
                                                               ELSE "done"]
  /\ UNCHANGED <<chatClients, chatChan, chatUid, chatTodo, chatIsOnline, smPc,
                 smFrom, smTodo, chatMsgs>>

\* select: case msg := <-client.Channel; the write succeeds.
ChatDeliver(k) ==
  /\ ChatFrame
  /\ UNCHANGED <<chatDB, smBlockedBy>>
  /\ chatPc[k] = "loop"
  /\ chatChan[k] # << >>
  /\ chatChan' = [chatChan EXCEPT ![k] = Tail(@)]
  /\ UNCHANGED <<chatClients, chatUid, chatPc, chatEv, chatTodo, chatRLock,
                 chatIsOnline, smPc, smFrom, smTodo, chatMsgs>>

\* select: case msg := <-client.Channel; c.Writer.Write fails: return.
ChatWriteFail(k) ==
  /\ ChatFrame
  /\ UNCHANGED <<chatDB, smBlockedBy>>
  /\ chatPc[k] = "loop"
  /\ chatChan[k] # << >>
  /\ chatChan' = [chatChan EXCEPT ![k] = Tail(@)]
  /\ chatPc' = [chatPc EXCEPT ![k] = "done"]
  /\ UNCHANGED <<chatClients, chatUid, chatEv, chatTodo, chatRLock,
                 chatIsOnline, smPc, smFrom, smTodo, chatMsgs>>

\* select: case <-ticker.C; the heartbeat write fails: return.
ChatHeartbeatFail(k) ==
  /\ ChatFrame
  /\ UNCHANGED <<chatDB, smBlockedBy>>
  /\ chatPc[k] = "loop"
  /\ chatPc' = [chatPc EXCEPT ![k] = "done"]
  /\ UNCHANGED <<chatClients, chatChan, chatUid, chatEv, chatTodo, chatRLock,
                 chatIsOnline, smPc, smFrom, smTodo, chatMsgs>>

\* select: case <-ctx.Done(): delete(clients, userID) under the write lock.
ChatCtxDone(k) ==
  /\ ChatFrame
  /\ UNCHANGED <<chatDB, smBlockedBy>>
  /\ chatPc[k] = "loop"
  /\ ChatCanLock
  /\ chatClients' = [chatClients EXCEPT ![chatUid[k]] = 0]
  /\ chatPc' = [chatPc EXCEPT ![k] = "deleted"]
  /\ UNCHANGED <<chatChan, chatUid, chatEv, chatTodo, chatRLock, chatIsOnline,
                 smPc, smFrom, smTodo, chatMsgs>>

\* UPDATE chat_users SET is_online = 0; broadcastOnlineStatus: query the
\* online users and build the event.
ChatSetOffline(k) ==
  /\ ChatFrame
  /\ UNCHANGED <<chatDB, smBlockedBy>>
  /\ chatPc[k] = "deleted"
  /\ chatIsOnline' = [chatIsOnline EXCEPT ![chatUid[k]] = FALSE]
  /\ chatEv' = [chatEv EXCEPT ![k] = ChatOnlineUsers \ {chatUid[k]}]
  /\ chatPc' = [chatPc EXCEPT ![k] = "leaving"]
  /\ UNCHANGED <<chatClients, chatChan, chatUid, chatTodo, chatRLock, smPc,
                 smFrom, smTodo, chatMsgs>>

\* googleAuthHandler.  With a client id configured the token is validated
\* (valid: idtoken.Validate succeeds for u) and a failure answers 401;
\* without one the request's email is taken as it is.  Then the upsert
\* sets is_online = 1 and broadcastOnlineStatus queries the online users.
GoogleAuth(u, valid) ==
  /\ AuthFrame
  /\ authPc = "idle"
  /\ IF googleClientID # "" /\ ~valid
       THEN /\ authPc' = "rejected"
            /\ UNCHANGED <<chatIsOnline, authEv, chatVerified>>
       ELSE /\ chatIsOnline' = [chatIsOnline EXCEPT ![u] = TRUE]
            /\ authEv' = ChatOnlineUsers \cup {u}
            /\ chatVerified' = IF googleClientID # "" THEN chatVerified \cup {u}
                                                      ELSE chatVerified
            /\ authPc' = "joining"
  /\ UNCHANGED <<chatClients, chatChan, chatUid, chatPc, chatEv, chatTodo,
                 chatRLock, smPc, smFrom, smTodo, chatMsgs, chatDB, smBlockedBy,
                 googleClientID, authTodo>>

\* broadcastOnlineStatus of the sign-in: clientsMutex.RLock(); start ranging
\* over clients.
AuthBcastLock ==
  /\ AuthFrame
  /\ authPc = "joining"
  /\ chatRLock' = chatRLock \cup {<<"auth", 0>>}
  /\ authTodo' = ChatRegistered
  /\ authPc' = "loop"
  /\ UNCHANGED <<chatClients, chatChan, chatUid, chatPc, chatEv, chatTodo,
                 chatIsOnline, smPc, smFrom, smTodo, chatMsgs, chatDB,
                 smBlockedBy, googleClientID, authEv, chatVerified>>

\* One iteration: select { case client.Channel <- sseData: default: }.
AuthBcastSend(d) ==
  /\ AuthFrame
  /\ authPc = "loop"
  /\ d \in authTodo
  /\ authTodo' = authTodo \ {d}
  /\ IF Len(chatChan[d]) < ChatChanCap
       THEN chatChan' = [chatChan EXCEPT ![d] = Append(@,
              [type |-> "online", users |-> authEv])]
       ELSE chatChan' = chatChan
  /\ UNCHANGED <<chatClients, chatUid, chatPc, chatEv, chatTodo, chatRLock,
                 chatIsOnline, smPc, smFrom, smTodo, chatMsgs, chatDB,
                 smBlockedBy, googleClientID, authPc, authEv, chatVerified>>

\* The range is exhausted: the deferred RUnlock runs; answer 200.
AuthBcastUnlock ==
  /\ AuthFrame
  /\ authPc = "loop"
  /\ authTodo = {}
  /\ chatRLock' = chatRLock \ {<<"auth", 0>>}
  /\ authEv' = {}
  /\ authPc' = "done"
  /\ UNCHANGED <<chatClients, chatChan, chatUid, chatPc, chatEv, chatTodo,
                 chatIsOnline, smPc, smFrom, smTodo, chatMsgs, chatDB,
                 smBlockedBy, googleClientID, authTodo, chatVerified>>

\* sendMessageHandler: isUserBanned(req.UserID) answers 403 and returns;
\* otherwise the message is inserted into chat_messages (a table no
\* modelled endpoint reads) and broadcastMessage is called:
\* connectedClients := len(clients) under RLock; return when it is 0.
SendMessage(u) ==
  /\ ChatFrame
  /\ UNCHANGED chatDB
  /\ smPc = "idle"
  /\ chatMsgs < MaxChatMsgs
  /\ chatMsgs' = chatMsgs + 1
  /\ IF u \in chatBanned \/ ChatRegistered = {}
       THEN UNCHANGED <<smPc, smFrom, smBlockedBy>>
       ELSE /\ smPc' = "counted"
            /\ smFrom' = u
            /\ smBlockedBy' = {a \in ChatUsers : <<a, u>> \in chatBlocks}
  /\ UNCHANGED <<chatClients, chatChan, chatUid, chatPc, chatEv, chatTodo,
                 chatRLock, chatIsOnline, smTodo>>

\* broadcastMessage: clientsMutex.RLock(); start ranging over clients.
SMLock ==
  /\ ChatFrame
  /\ UNCHANGED <<chatDB, smBlockedBy>>
  /\ smPc = "counted"
  /\ chatRLock' = chatRLock \cup {<<"sender", 0>>}
  /\ smTodo' = ChatRegistered
  /\ smPc' = "loop"
  /\ UNCHANGED <<chatClients, chatChan, chatUid, chatPc, chatEv, chatTodo,
                 chatIsOnline, smFrom, chatMsgs>>

\* One iteration for the entry (userID, client): count the chat_blocks rows
\* with blocker_id = userID and blocked_id = senderID; when there is none,
\* select { case client.Channel <- sseData: default: }.  The store answers
\* the query (the persistence collaborator keeps its contract).
SMSend_NoBlockCheck(d) ==
  /\ ChatFrame
  /\ UNCHANGED <<chatDB, smBlockedBy>>
  /\ smPc = "loop"
  /\ d \in smTodo
  /\ smTodo' = smTodo \ {d}
  /\ IF Len(chatChan[d]) < ChatChanCap
       THEN chatChan' = [chatChan EXCEPT ![d] = Append(@,
              [type |-> "message", from |-> smFrom, id |-> chatMsgs])]
       ELSE chatChan' = chatChan
  /\ UNCHANGED <<chatClients, chatUid, chatPc, chatEv, chatTodo, chatRLock,
                 chatIsOnline, smPc, smFrom, chatMsgs>>

SMSend(d) ==
  /\ ChatFrame
  /\ UNCHANGED <<chatDB, smBlockedBy>>
  /\ smPc = "loop"
  /\ d \in smTodo
  /\ smTodo' = smTodo \ {d}
  /\ IF <<chatUid[d], smFrom>> \notin chatBlocks /\ Len(chatChan[d]) < ChatChanCap
       THEN chatChan' = [chatChan EXCEPT ![d] = Append(@,
              [type |-> "message", from |-> smFrom, id |-> chatMsgs])]
       ELSE chatChan' = chatChan
  /\ UNCHANGED <<chatClients, chatUid, chatPc, chatEv, chatTodo, chatRLock,
                 chatIsOnline, smPc, smFrom, chatMsgs>>

\* The range is exhausted: the deferred RUnlock runs.
SMUnlock ==
  /\ ChatFrame
  /\ UNCHANGED chatDB
  /\ smPc = "loop"
  /\ smTodo = {}
  /\ chatRLock' = chatRLock \ {<<"sender", 0>>}
  /\ smPc' = "idle"
  /\ smFrom' = 0
  /\ smBlockedBy' = {}
  /\ UNCHANGED <<chatClients, chatChan, chatUid, chatPc, chatEv, chatTodo,
                 chatIsOnline, smTodo, chatMsgs>>

\* blockUserHandler: INSERT OR IGNORE INTO chat_blocks; answer 200.
BlockUser_Retroactive(a, b) ==
  /\ ChatFrame
  /\ UNCHANGED smBlockedBy
  /\ <<a, b>> \in ChatBlockPairs
  /\ chatBlocks' = chatBlocks \cup {<<a, b>>}
  /\ UNCHANGED chatBanned
  /\ chatChan' = [k \in ChatConns |->
       IF chatUid[k] = a
         THEN SelectSeq(chatChan[k], LAMBDA m : ~(m.type = "message" /\ m.from = b))
         ELSE chatChan[k]]
  /\ UNCHANGED <<chatClients, chatUid, chatPc, chatEv, chatTodo,
                 chatRLock, chatIsOnline, smPc, smFrom, smTodo, chatMsgs>>

BlockUser(a, b) ==
  /\ ChatFrame
  /\ UNCHANGED smBlockedBy
  /\ <<a, b>> \in ChatBlockPairs
  /\ chatBlocks' = chatBlocks \cup {<<a, b>>}
  /\ UNCHANGED chatBanned
  /\ UNCHANGED <<chatClients, chatChan, chatUid, chatPc, chatEv, chatTodo,
                 chatRLock, chatIsOnline, smPc, smFrom, smTodo, chatMsgs>>

\* unblockUserHandler: DELETE FROM chat_blocks WHERE blocker_id = ? AND
\* blocked_id = ?; answer 200.
UnblockUser(a, b) ==
  /\ ChatFrame
  /\ <<a, b>> \in ChatBlockPairs
  /\ chatBlocks' = chatBlocks \ {<<a, b>>}
  /\ UNCHANGED chatBanned
  /\ smBlockedBy' = IF b = smFrom THEN smBlockedBy \ {a} ELSE smBlockedBy
  /\ UNCHANGED <<chatClients, chatChan, chatUid, chatPc, chatEv, chatTodo,
                 chatRLock, chatIsOnline, smPc, smFrom, smTodo, chatMsgs>>

\* banUserHandler: the user exists in chat_users; one transaction upserts
\* the chat_banned_users row and deletes the user's chat_messages rows.
BanUser(u) ==
  /\ ChatFrame
  /\ UNCHANGED smBlockedBy
  /\ u \in ChatBannable
  /\ chatBanned' = chatBanned \cup {u}
  /\ UNCHANGED <<chatClients, chatChan, chatUid, chatPc, chatEv, chatTodo,
                 chatRLock, chatIsOnline, smPc, smFrom, smTodo, chatMsgs,
                 chatBlocks>>

\* unbanUserHandler: DELETE FROM chat_banned_users WHERE user_id = ?
\* (404 when no row was deleted).
UnbanUser(u) ==
  /\ ChatFrame
  /\ UNCHANGED smBlockedBy
  /\ u \in ChatBannable
  /\ chatBanned' = chatBanned \ {u}
  /\ UNCHANGED <<chatClients, chatChan, chatUid, chatPc, chatEv, chatTodo,
                 chatRLock, chatIsOnline, smPc, smFrom, smTodo, chatMsgs,
                 chatBlocks>>

\* The stream, presence and send-message endpoints.
NextChatCore ==
  \/ \E k \in ChatConns : \E u \in ChatUsers : ChatRegister(k, u)
  \/ \E k \in ChatConns : ChatSetOnline(k)
  \/ \E k \in ChatConns : ChatBcastLock(k)
  \/ \E k \in ChatConns : \E d \in ChatConns : ChatBcastSend(k, d)
  \/ \E k \in ChatConns : ChatBcastUnlock(k)
  \/ \E k \in ChatConns : ChatDeliver(k)
  \/ \E k \in ChatConns : ChatWriteFail(k)
  \/ \E k \in ChatConns : ChatHeartbeatFail(k)
  \/ \E k \in ChatConns : ChatCtxDone(k)
  \/ \E k \in ChatConns : ChatSetOffline(k)
  \/ \E u \in ChatUsers : SendMessage(u)
  \/ SMLock
  \/ \E d \in ChatConns : SMSend(d)
  \/ SMUnlock

\* ... with the users' block and unblock endpoints.
NextChat ==
  \/ NextChatCore
  \/ \E a \in ChatUsers : \E b \in ChatUsers : BlockUser(a, b)
  \/ \E a \in ChatUsers : \E b \in ChatUsers : UnblockUser(a, b)

\* The presence side of the SSE chat with one sign-in request.
NextChatAuth ==
  \/ \E k \in ChatConns : \E u \in ChatUsers : ChatRegister(k, u)
  \/ \E k \in ChatConns : ChatSetOnline(k)
  \/ \E k \in ChatConns : ChatBcastLock(k)
  \/ \E k \in ChatConns : \E d \in ChatConns : ChatBcastSend(k, d)
  \/ \E k \in ChatConns : ChatBcastUnlock(k)
  \/ \E k \in ChatConns : ChatDeliver(k)
  \/ \E k \in ChatConns : ChatWriteFail(k)
  \/ \E k \in ChatConns : ChatHeartbeatFail(k)
  \/ \E k \in ChatConns : ChatCtxDone(k)
  \/ \E k \in ChatConns : ChatSetOffline(k)
  \/ \E u \in ChatUsers : \E valid \in BOOLEAN : GoogleAuth(u, valid)
  \/ AuthBcastLock
  \/ \E d \in ChatConns : AuthBcastSend(d)
  \/ AuthBcastUnlock

\* ... with the admin's ban and unban endpoints.
NextChatAdmin ==
  \/ NextChatCore
  \/ \E u \in ChatUsers : BanUser(u)
  \/ \E u \in ChatUsers : UnbanUser(u)

\* ================================================================ specifications

vars == <<pkg, liveVars, sideVars, wsVars, chatVars>>

Init ==
  /\ pkg \in Packages
  /\ LiveInit
  /\ PayloadInit
  /\ HistInit
  /\ LkInit
  /\ VerInit
  /\ WSInit
  /\ ChatInit
  /\ ChatDefaultConfig

Next ==
  \/ NextLive
  \/ NextPayload
  \/ NextHistory
  \/ NextLocks
  \/ NextVersion
  \/ NextWS
  \/ NextChat

\* Every package in turn.
Spec == Init /\ [][Next]_vars

\* The result stream alone.
InitLive == Init /\ pkg = "live"
SpecLive == InitLive /\ [][NextLive]_vars

\* The content of one update request.
InitPayload == Init /\ pkg = "payload"
SpecPayload == InitPayload /\ [][NextPayload]_vars

\* The history check of concurrent update requests.
InitHistory == Init /\ pkg = "history"
SpecHistory == InitHistory /\ [][NextHistory]_vars

\* The lock operations of the result-stream handlers.
InitLocks == Init /\ pkg = "locks"
SpecLocks == InitLocks /\ [][NextLocks]_vars

\* The version check against the configured minimum version.
InitVersion == Init /\ pkg = "version"
SpecVersion == InitVersion /\ [][NextVersion]_vars

\* The dotted version a string is the notation of.
VersionOf(str) == CHOOSE v \in Versions : VersionString(v) = str

\* a is lower than b in numeric dotted-version ordering.
VersionLower(a, b) ==
  \E i \in 1..VersionLen :
    /\ a[i] < b[i]
    /\ \A j \in 1..(i - 1) : a[j] = b[j]

\* C40: CheckVersion reports update_required exactly when the client's
\* version is lower than the configured minimum version in numeric
\* dotted-version ordering.
C40_UpdateRequiredIffNumericallyLower ==
  [][\A v \in Versions :
       CheckVersion(v) =>
         (updateRequired' <=> VersionLower(v, VersionOf(cfgMinimumVersion)))]_vars

\* The two dispatchers that range over a registry under its read lock:
\* broadcastUpdate of package live and handleBroadcast of package chatws.
InitDispatch == Init /\ pkg \in {"live", "chatws"}
NextDispatch == NextLive \/ NextWS
SpecDispatch == InitDispatch /\ [][NextDispatch]_vars

\* The WebSocket chat alone.
InitWS == Init /\ pkg = "chatws"
SpecWS == InitWS /\ [][NextWS]_vars

\* The WebSocket chat with the order of its broadcast events on record.
InitWSOrder ==
  /\ pkg = "chatws"
  /\ LiveInit
  /\ PayloadInit
  /\ HistInit
  /\ LkInit
  /\ VerInit
  /\ ChatInit
  /\ ChatDefaultConfig
  /\ WSStart
  /\ wsBlocked = {}
  /\ wsBanned = {}
  /\ wsToken = WSSignedIn
  /\ wsTrace = TRUE

\* Connections that join, send chat messages and leave, with the dispatcher;
\* the socket writes succeed.
NextWSOrder ==
  \/ \E c \in WSConns : WSRegister(c)
  \/ \E c \in WSConns : WSListOnline(c)
  \/ \E c \in WSConns : WSSendOnline(c)
  \/ \E c \in WSConns : WSJoinCount(c)
  \/ \E c \in WSConns : WSJoinSend(c)
  \/ \E c \in WSConns : WSChatMessage(c)
  \/ \E c \in WSConns : WSReadError(c)
  \/ \E c \in WSConns : WSDisconnect(c)
  \/ \E c \in WSConns : WSLeftCount(c)
  \/ \E c \in WSConns : WSLeftSend(c)
  \/ \E c \in WSConns : WPDeliver(c)
  \/ HBReceive
  \/ \E c \in WSConns : HBSend(c)
  \/ HBUnlock

SpecWSOrder == InitWSOrder /\ [][NextWSOrder]_vars

\* Some occurrence of a is before some occurrence of b in seq.
WSBefore(seq, a, b) ==
  \E k, l \in 1..Len(seq) : k < l /\ seq[k] = a /\ seq[l] = b

WSSystemStep ==
  \/ \E c \in WSConns : WSListOnline(c)
  \/ \E c \in WSConns : WSSendOnline(c)
  \/ \E c \in WSConns : WSJoinCount(c)
  \/ \E c \in WSConns : WSJoinSend(c)
  \/ \E c \in WSConns : ~WSConnOpen(c) /\ WSReadError(c)
  \/ \E c \in WSConns : WSPong(c)
  \/ \E c \in WSConns : WSDisconnect(c)
  \/ \E c \in WSConns : WSLeftCount(c)
  \/ \E c \in WSConns : WSLeftSend(c)
  \/ \E c \in WSConns : WPDeliver(c)
  \/ \E c \in WSConns : WPClosed(c)
  \/ HBReceive
  \/ \E c \in WSConns : HBSend(c)
  \/ HBUnlock

\* The presence side of the WebSocket chat: connections come and go (the
\* peer closes, the transport fails, the dispatcher drops a full client)
\* and the dispatcher delivers the presence events; no frame is read.
NextWSPresence ==
  \/ \E c \in WSConns : WSRegister(c)
  \/ \E c \in WSConns : WSListOnline(c)
  \/ \E c \in WSConns : WSSendOnline(c)
  \/ \E c \in WSConns : WSJoinCount(c)
  \/ \E c \in WSConns : WSJoinSend(c)
  \/ \E c \in WSConns : WSReadError(c)
  \/ \E c \in WSConns : WSDisconnect(c)
  \/ \E c \in WSConns : WSLeftCount(c)
  \/ \E c \in WSConns : WSLeftSend(c)
  \/ \E c \in WSConns : WPDeliver(c)
  \/ \E c \in WSConns : WPWriteFail(c)
  \/ \E c \in WSConns : WPClosed(c)
  \/ HBReceive
  \/ \E c \in WSConns : HBSend(c)
  \/ HBUnlock

SpecWSPresence == InitWS /\ [][NextWSPresence]_vars /\ WF_vars(WSSystemStep)

\* The presence side when the connections' tokens may name the same user.
InitWSIdentity ==
  /\ pkg = "chatws"
  /\ LiveInit
  /\ PayloadInit
  /\ HistInit
  /\ LkInit
  /\ VerInit
  /\ ChatInit
  /\ ChatDefaultConfig
  /\ WSStart
  /\ wsTrace = FALSE
  /\ wsBlocked = {}
  /\ wsBanned = {}
  /\ wsToken \in {t \in [WSConns -> [kind : {"genuine"}, sub : WSUsers]] :
                    t[1].sub = 1}
SpecWSIdentity == InitWSIdentity /\ [][NextWSPresence]_vars

\* The presence side when the connections present any kind of token.
InitWSAuth ==
  /\ pkg = "chatws"
  /\ LiveInit
  /\ PayloadInit
  /\ HistInit
  /\ LkInit
  /\ VerInit
  /\ ChatInit
  /\ ChatDefaultConfig
  /\ WSStart
  /\ wsTrace = FALSE
  /\ wsBlocked = {}
  /\ wsBanned = {}
  /\ wsToken \in {t \in [WSConns -> [kind : WSTokenKinds, sub : WSUsers]] :
                    \A c \in WSConns : t[c].sub = WSSignedIn[c].sub}
NextWSAuth ==
  \/ NextWSPresence
  \/ \E c \in WSConns : WSAuthFail(c)
SpecWSAuth == InitWSAuth /\ [][NextWSAuth]_vars

\* The WebSocket chat with its goroutines scheduled fairly.
SpecWSFair == InitWS /\ [][NextWS]_vars /\ WF_vars(WSSystemStep)

\* The two chats with their moderation data: the WebSocket chat started on
\* stores that may already hold rows, the SSE chat with the admin's ban
\* endpoints.
InitModeration ==
  /\ pkg \in {"chatws", "chat"}
  /\ LiveInit
  /\ PayloadInit
  /\ HistInit
  /\ LkInit
  /\ VerInit
  /\ ChatInit
  /\ ChatDefaultConfig
  /\ WSStart
  /\ wsTrace = FALSE
  /\ \E t \in WSStores :
       /\ pkg = "chat" => t = [blocked |-> {}, banned |-> {}]
       /\ wsBlocked = t.blocked
       /\ wsBanned = t.banned
  /\ wsToken = WSSignedIn
NextModeration == NextWS \/ NextChatAdmin
SpecModeration == InitModeration /\ [][NextModeration]_vars

\* The two SSE packages (result stream and SSE chat).
InitSSE == Init /\ pkg \in {"live", "chat"}
NextSSE == NextLive \/ NextChat
SpecSSE == InitSSE /\ [][NextSSE]_vars

\* The SSE chat alone.
InitChat == Init /\ pkg = "chat"
SpecChat == InitChat /\ [][NextChat]_vars

\* The SSE chat's presence and sign-in, with and without a configured
\* client id.
InitChatAuth ==
  /\ pkg = "chat"
  /\ LiveInit
  /\ PayloadInit
  /\ HistInit
  /\ LkInit
  /\ VerInit
  /\ WSInit
  /\ ChatInit
  /\ googleClientID \in {"", "client-id"}
SpecChatAuth == InitChatAuth /\ [][NextChatAuth]_vars

\* Sign-in and connection of both chats.
InitAuth == InitWSAuth \/ InitChatAuth
NextAuth == NextWSAuth \/ NextChatAuth
SpecAuth == InitAuth /\ [][NextAuth]_vars

\* ================================================================ claims

\* C1: a broadcast never blocks on a subscriber whose queue is full.  While
\* broadcastUpdate or handleBroadcast ranges over the registry, the step
\* for every subscriber still to visit can be taken whatever the state of
\* its queue; a subscriber whose queue has spare capacity gets the message
\* appended; and every registered subscriber is accounted for (enqueued,
\* found full, or still to visit), so the range ends with every subscriber
\* that had room holding the message.
C1_BroadcastNeverBlocks ==
  /\ [](\A u \in Updaters : \A c \in updTodo[u] : ENABLED BroadcastSend(u, c))
  /\ [](\A c \in hbTodo : ENABLED HBSend(c))
  /\ [](\A u \in Updaters : updPc[u] = "loop" =>
          /\ updSent[u] \cup updSkipped[u] \cup updTodo[u] = liveClients
          /\ updTodo[u] = {} => ENABLED UpdRUnlock(u))
  /\ [](hbPc = "loop" =>
          /\ hbSent \cup hbTodo = wsClients
          /\ hbTodo = {} => ENABLED HBUnlock)
  /\ [][\A u \in Updaters : \A c \in Streams :
          (Len(liveChan[c]) < LiveChanCap /\ c \in updTodo[u] /\ BroadcastSend(u, c))
            => liveChan'[c] = Append(liveChan[c], updMsg[u])]_vars
  /\ [][\A c \in WSConns :
          (Len(wsSend[c]) < WSSendCap /\ c \in hbTodo /\ HBSend(c))
            => wsSend'[c] = Append(wsSend[c], hbMsg)]_vars

\* A broadcastUpdate has visited every subscriber: one was full and was
\* passed over, another had room and got the message.
C1_Witness ==
  \E u \in Updaters :
    /\ updPc[u] = "loop"
    /\ updTodo[u] = {}
    /\ updSkipped[u] # {}
    /\ updSent[u] # {}

\* C2: when handleBroadcast finds client S's Send full, that same
\* iteration closes S.Send and deletes S from the registry; at every point
\* of the dispatch the clients still registered are exactly those that got
\* the message or are still to be visited, and a client that got it had
\* the message appended to its Send queue.
C2_DropFullClient ==
  /\ [][\A c \in WSConns :
          (~wsClosed[c] /\ Len(wsSend[c]) >= WSSendCap /\ HBSend(c))
            => (wsClosed'[c] /\ c \notin wsClients' /\ c \in hbDropped')]_vars
  /\ [][\A c \in WSConns :
          (c \in hbTodo /\ HBSend(c) /\ c \in hbSent') => wsSend'[c] = Append(wsSend[c], hbMsg)]_vars
  /\ [](hbPc = "loop" =>
          /\ hbSent \cup hbTodo = wsClients
          /\ \A c \in hbDropped : wsClosed[c] /\ c \notin wsClients)

\* A dispatch has ended in which one client was dropped on a full queue and
\* another received the message.
C2_Witness ==
  /\ hbPc = "loop"
  /\ hbTodo = {}
  /\ hbDropped # {}
  /\ hbSent # {}

C4_NoSendOnClosedSend == wsPanic = {}

\* C5: broadcastUpdate never sends on a channel StreamLotteryData has
\* closed: no channel a running range loop will still visit is closed, and
\* no send has paniced.
C5_NoSendOnClosedChan ==
  /\ ~livePanic
  /\ \A u \in Updaters : \A c \in updTodo[u] : ~liveClosed[c]

\* A handler has disconnected and closed its channel while a broadcast is
\* inside its range loop and has already enqueued to another subscriber.
C5_Witness ==
  \E u \in Updaters : \E c \in Streams :
    /\ updPc[u] = "loop"
    /\ updSent[u] # {}
    /\ liveClosed[c]

\* C6: each client's Send channel is closed at most once, whether by
\* disconnect or by handleBroadcast dropping the client.
C6_SendClosedAtMostOnce == \A c \in WSConns : wsCloseCount[c] <= 1

\* handleBroadcast dropped a client whose readPump was inside its pong
\* send (the send paniced), and that client's disconnect has since run its
\* locked part.
C6_Witness ==
  \E c \in WSConns :
    /\ <<"handler", c>> \in wsPanic
    /\ wsPc[c] \in {"removed", "leftcount", "done"}
    /\ wsCloseCount[c] = 1

\* C7: in the result stream the registry holds exactly the channels of the
\* handlers that have registered and not yet run their disconnect branch,
\* so its size is the number of connections still open.
C7_RegistryIsOpenStreams ==
  liveClients = {h \in Streams : livePc[h] \in {"registered", "cached", "loop"}}

\* One handler has disconnected and returned, another is still streaming,
\* and a broadcast has run to completion.
C7_Witness ==
  /\ \E h \in Streams : livePc[h] = "done"
  /\ \E h \in Streams : livePc[h] = "loop"
  /\ \E u \in Updaters : updPc[u] = "done"

\* C8: in the SSE chat, once sseStreamHandler has returned, by whatever
\* exit, the registry holds no entry for that connection.
C8_NoEntryAfterReturn ==
  \A k \in ChatConns : chatPc[k] = "done" => chatClients[chatUid[k]] # k

\* C9: in the SSE chat a connection that is still open, and is the latest
\* one opened with its user_id, is in the registry.
C9_LatestOpenConnRegistered ==
  \A k \in ChatConns :
    (/\ chatPc[k] \in {"registered", "joining", "joinloop", "loop"}
     /\ \A j \in ChatConns : j > k => chatUid[j] # chatUid[k])
      => chatClients[chatUid[k]] = k

\* C10: in the WebSocket chat, a registered client whose handler has ended
\* had its cleanup (user marked offline, one user_left enqueued) run
\* exactly once.
C10_CleanupExactlyOnce ==
  \A c \in WSConns : wsPc[c] \in {"done", "crashed"} => wsLeft[c] = 1

\* C11: in the WebSocket chat, once writePump has exited (the transport
\* failed and Conn is closed), the client is eventually out of the
\* registry and its readPump has terminated; readPump does not stay
\* blocked on its pong send or on its send into the broadcast queue.
C11_ClosedTransportLeadsToRemoval ==
  \A c \in WSConns :
    (wpPc[c] = "exit") ~> (c \notin wsClients /\ wsPc[c] \in {"done", "crashed"})

C13_WSBlockedSenderFiltered ==
  \A a \in WSConns : \A i \in 1..Len(wsSend[a]) :
    wsSend[a][i].type = "message"
      => <<WSUserOf(a), WSUserOf(wsSend[a][i].from)>> \notin wsBlocked

C15_BannedSenderRejected ==
  /\ [][\A c \in WSConns : WSChatMessage(c) => WSUserOf(c) \notin wsBanned]_vars
  /\ [][\A u \in ChatUsers :
          (SendMessage(u) /\ u \in chatBanned)
            => UNCHANGED <<chatChan, smPc, smFrom, smTodo>>]_vars

\* C16: in the WebSocket chat a malformed inbound frame (not decodable as
\* a JSON object, without a string "type", or of an unknown type) is
\* skipped and never ends the connection: after a registered client's
\* readPump has read one, the client is still registered and readPump is
\* reading again.
C16_MalformedFrameSkipped ==
  [][\A c \in WSConns : \A kind \in WSMalformed :
       (WSReadMalformed(c, kind) /\ c \in wsClients)
         => (c \in wsClients' /\ wsPc'[c] = "read")]_vars

\* C17: a producer update whose body cannot be read or parsed is answered
\* with status 400 and changes nothing: the stored snapshot, the cached
\* encoded message, the registry and every subscriber queue are as
\* before, and the history callback is not invoked.
C17_RejectedUpdateChangesNothing ==
  /\ [][\A u \in Updaters :
          UpdReject(u)
            => /\ updPc'[u] = "rejected"
               /\ UNCHANGED <<currentData, nextVer, cachedJSONMessage,
                               liveClients, liveChan, liveClosed, historyCalls>>]_vars
  /\ [](\A u \in Updaters : updPc[u] = "rejected" => UpdStatus(u) = 400)
  /\ [][\A u \in Updaters :
          updPc[u] = "rejected" => updPc'[u] = "rejected"]_vars

\* An update was rejected after an earlier one had been stored, cached and
\* enqueued to a subscriber; snapshot, cache and queue are still those of
\* the earlier update.
C17_Witness ==
  \E u \in Updaters : \E h \in Streams :
    /\ updPc[u] = "rejected"
    /\ currentData.ver = 1
    /\ cachedJSONMessage.ver = 1
    /\ liveChan[h] # << >>
    /\ liveChan[h][1].ver = 1
    /\ nextVer = 1

\* C18: after an accepted producer update every field of the stored
\* snapshot that was missing or empty in the payload holds a placeholder
\* ("--", or "---" for the result fields), every non-empty input field is
\* stored unchanged, and no field of the stored snapshot is the empty
\* string.
C18_PlaceholdersForEmptyFields ==
  payloadPc = "stored" =>
    \A f \in Fields :
      LET given == InputKey(f) \in DOMAIN reqBody.object
                     /\ reqBody.object[InputKey(f)] # ""
      IN /\ given => snapFields[f] = reqBody.object[InputKey(f)]
         /\ ~given => snapFields[f] =
               (IF f \in {"Result1200", "Result430"} THEN "---" ELSE "--")
         /\ snapFields[f] # ""

\* C19: after any sequence of updates, stream connects and stream
\* disconnects (no handler in the middle of one), GetCurrentData returns
\* the fields of the most recently accepted update together with
\* active_viewers equal to the number of subscribers registered at the
\* time of the read.
C19_CurrentDataViewersAreRegistrySize ==
  (/\ \A h \in Streams : livePc[h] \in {"idle", "loop", "done"}
   /\ \A u \in Updaters : updPc[u] \in {"idle", "rejected", "done"})
    => /\ GetCurrentData.ver = nextVer
       /\ GetCurrentData.views = Cardinality(liveClients)

\* C20: the initial message written to a newly connected subscriber carries
\* an active_viewers value equal to the registry size computed at its
\* registration (itself included), whether or not a cached encoded message
\* exists from an earlier broadcast.
C20_InitialMessageCarriesOwnCount ==
  \A h \in Streams :
    livePc[h] = "cached" =>
      /\ liveCount[h] >= 1
      /\ InitialMessage(h).views = liveCount[h]

\* C21: connecting a result-stream subscriber enqueues nothing on any
\* subscriber's channel, and until the new subscriber's handler has written
\* the initial message it writes no broadcast message: what is enqueued on
\* its channel after registration stays queued behind the initial frame.
C21_InitialMessageFirst ==
  /\ [][\A h \in Streams :
          (livePc[h] \in {"idle", "registered", "cached"}
             /\ (StreamRegister(h) \/ StreamReadCache(h) \/ StreamWriteInitial(h)))
            => liveChan' = liveChan]_vars
  /\ [][\A h \in Streams :
          livePc[h] \in {"idle", "registered", "cached"}
            => /\ liveSeen'[h] = << >>
               /\ Len(liveChan'[h]) >= Len(liveChan[h])
               /\ SubSeq(liveChan'[h], 1, Len(liveChan[h])) = liveChan[h]]_vars

\* A broadcast message is queued on the channel of a registered subscriber
\* whose initial message has not been written yet.
C21_Witness ==
  \E h \in Streams :
    /\ livePc[h] = "cached"
    /\ liveChan[h] # << >>
    /\ liveSeen[h] = << >>

\* C22: whenever no producer update is in flight, the cached encoded
\* message, if there is one, carries the fields of the current stored
\* snapshot, for every interleaving of concurrent UpdateLotteryData calls.
C22_CacheIsCurrentWhenIdle ==
  ((\A u \in Updaters : updPc[u] \in {"idle", "rejected", "done"})
     /\ cachedJSONMessage # NoMsg)
    => cachedJSONMessage.ver = currentData.ver

\* C23: a subscriber never receives the encoding of an older snapshot after
\* the encoding of a newer one, also when several UpdateLotteryData calls
\* run concurrently.
C23_SubscriberSeesUpdatesInOrder ==
  \A h \in Streams :
    \A i, j \in 1..Len(liveSeen[h]) :
      i < j => liveSeen[h][i] <= liveSeen[h][j]

\* C24: two subscribers that both receive the same two broadcast messages
\* receive them in the same relative order.
C24_SameOrderAtAllSubscribers ==
  \A g, h \in Streams :
    \A i, j \in 1..Len(liveSeen[g]) : \A k, l \in 1..Len(liveSeen[h]) :
      (i < j /\ liveSeen[g][i] = liveSeen[h][k] /\ liveSeen[g][j] = liveSeen[h][l]
         /\ liveSeen[g][i] # liveSeen[g][j])
        => k < l

\* C25: each broadcast is enqueued exactly once on the channel of every
\* subscriber registered when the dispatcher iterates the registry, except
\* those whose queue is full at that moment (broadcastUpdate and
\* handleBroadcast).  During the range every subscriber of the registry is
\* in exactly one of: still to visit, enqueued, found full; a visit moves
\* the subscriber out of the first group for good, appends one copy of the
\* message when its queue has room and none otherwise, and touches no other
\* queue.
C25_EachBroadcastOncePerSubscriber ==
  /\ [](\A u \in Updaters : updPc[u] = "loop" =>
          /\ updTodo[u] \cup updSent[u] \cup updSkipped[u] = liveClients
          /\ updTodo[u] \cap updSent[u] = {}
          /\ updTodo[u] \cap updSkipped[u] = {}
          /\ updSent[u] \cap updSkipped[u] = {})
  /\ [](hbPc = "loop" =>
          /\ hbTodo \cup hbSent = wsClients
          /\ hbTodo \cap hbSent = {}
          /\ hbDropped \cap wsClients = {})
  /\ [][\A u \in Updaters : \A c \in Streams :
          (c \in updTodo[u] /\ BroadcastSend(u, c))
            => /\ c \notin updTodo'[u]
               /\ \A d \in Streams \ {c} : liveChan'[d] = liveChan[d]
               /\ IF Len(liveChan[c]) < LiveChanCap
                    THEN /\ liveChan'[c] = Append(liveChan[c], updMsg[u])
                         /\ c \in updSent'[u]
                    ELSE /\ liveChan'[c] = liveChan[c]
                         /\ c \in updSkipped'[u]]_vars
  /\ [][\A c \in WSConns :
          (c \in hbTodo /\ HBSend(c))
            => /\ c \notin hbTodo'
               /\ \A d \in WSConns \ {c} : wsSend'[d] = wsSend[d]
               /\ IF Len(wsSend[c]) < WSSendCap
                    THEN /\ wsSend'[c] = Append(wsSend[c], hbMsg)
                         /\ c \in hbSent'
                    ELSE /\ wsSend'[c] = wsSend[c]
                         /\ c \in hbDropped']_vars

\* Two broadcasts are in their range loops and each has enqueued its message
\* on the channel of the same subscriber, which has written the first to
\* its transport in between.
C25_Witness ==
  \E c \in Streams :
    /\ \A u \in Updaters : updPc[u] = "loop" /\ c \in updSent[u]
    /\ Len(liveSeen[c]) = 1
    /\ Len(liveChan[c]) = 1

C27_IdentityCountedOnce ==
  /\ [][\A c \in WSConns :
          (WSJoinCount(c) \/ WSLeftCount(c))
            => wsCnt'[c] = Cardinality({WSUserOf(d) : d \in wsClients})]_vars
  /\ [][\A c \in WSConns :
          (WSSendOnline(c) /\ Len(wsSend'[c]) > Len(wsSend[c]))
            => wsSend'[c][Len(wsSend'[c])].count
                 = Cardinality({WSUserOf(d) : d \in wsClients})]_vars
  /\ [][\A c \in WSConns :
          WSListOnline(c)
            => \A d, e \in wsList'[c] : WSUserOf(d) = WSUserOf(e) => d = e]_vars

\* C28: in the SSE chat the online user list (and so the count) of an
\* "online" event equals the set of identities that have a registered live
\* subscriber when the event is built, after any sequence of auth requests,
\* stream connects and stream disconnects (no other request in progress).
C28_OnlineListIsRegistry ==
  [][\A k \in ChatConns :
       ((ChatSetOnline(k) \/ ChatSetOffline(k))
          /\ authPc \in {"idle", "rejected", "done"}
          /\ \A j \in ChatConns \ {k} : chatPc[j] \in {"idle", "loop", "done"})
         => chatEv'[k] = {u \in ChatUsers : chatClients[u] # 0}]_vars

\* C29: in the WebSocket chat, when authentication of a connection fails
\* the connection goes straight to Closed: the error frame is written and
\* the transport closed, the client is never in the registry, no event
\* names it, its writePump is never started, and the step leaves the
\* online flags, the registry and every queue as they were.
C29_AuthFailureGoesToClosed ==
  /\ [][\A c \in WSConns :
          WSAuthFail(c)
            => /\ c \in wsAuthErr'
               /\ UNCHANGED <<wsClients, wsSend, broadcast, wsIsOnline, hbMsg>>]_vars
  /\ [](\A c \in WSConns :
          wsToken[c].kind = "malformed"
            => /\ c \notin wsClients
               /\ wsPc[c] \in {"idle", "authfailed"}
               /\ wpPc[c] = "off"
               /\ wsLeft[c] = 0
               /\ hbMsg.from # c
               /\ \A i \in 1..Len(broadcast) : broadcast[i].from # c
               /\ \A d \in WSConns : \A i \in 1..Len(wsSend[d]) :
                    wsSend[d][i].from # c)
  /\ [](\A c \in WSConns : wsPc[c] = "authfailed" <=> c \in wsAuthErr)
  /\ [][\A c \in WSConns :
          wsPc[c] = "authfailed" => wsPc'[c] = "authfailed"]_vars

\* A connection was refused while another user is connected and has been
\* sent events; the refused user's online flag is still unset.
C29_Witness ==
  \E c, d \in WSConns :
    /\ wsPc[c] = "authfailed"
    /\ ~wsIsOnline[WSUserOf(c)]
    /\ d \in wsClients
    /\ wsSend[d] # << >>

\* C30: under the default configuration (GOOGLE_OAUTH_CLIENT_ID unset, no
\* permissive flag set) no chat identity is online or registered as a
\* subscriber without a successful token verification: a registered
\* WebSocket client presented a token that verifies, and an SSE chat user
\* who is online or has a registered stream has passed idtoken.Validate.
C30_NoIdentityWithoutVerification ==
  ChatDefaultConfig =>
    /\ \A c \in wsClients : wsToken[c].kind = "genuine"
    /\ \A u \in WSUsers :
         wsIsOnline[u] => \E c \in WSConns : WSUserOf(c) = u
                                              /\ wsToken[c].kind = "genuine"
    /\ \A u \in ChatUsers :
         (chatIsOnline[u] \/ chatClients[u] # 0) => u \in chatVerified

\* C31: the history callback is invoked at most once within any one-minute
\* span, also when several UpdateLotteryData goroutines run
\* checkAndInsertHistory concurrently: any two invocations are at least a
\* minute apart.
C31_HistoryOncePerMinute ==
  \A i, j \in 1..Len(histLog) :
    i < j => histLog[j].at - histLog[i].at >= TicksPerMinute

\* C37: the history callback is never invoked for an update whose input
\* evening result ("430") was empty or a placeholder.
C37_NoInsertOfUnreadyResult ==
  \A i \in 1..Len(histLog) : histLog[i].input \notin {"", "--", "---"}

\* C32: in the result-stream package no goroutine holds two of dataMutex,
\* clientsMutex and cachedJSONMutex at the same time, and no interleaving
\* of UpdateLotteryData, GetCurrentData, StreamLotteryData and
\* broadcastUpdate deadlocks: as long as a handler has a lock operation
\* left, some goroutine can take its next step.
C32_OneLockAtATime ==
  /\ \A g \in LkRoutines : Cardinality(LkHeld(g)) <= 1
  /\ (\E g \in LkRoutines : LkRunning(g)) => ENABLED NextLocks

\* A StreamLotteryData handler waits in clientsMutex.Lock() for the range
\* loop of a broadcastUpdate to release its read lock, while another
\* update holds dataMutex.
C32_Witness ==
  /\ lkPending["clientsMutex"] # {}
  /\ lkReaders["clientsMutex"] # {}
  /\ \E g \in LkRoutines : lkPc[g] = 9 /\ g \in lkReaders["clientsMutex"]
  /\ lkWriter["dataMutex"] # Nobody

\* C33: every mutation of the snapshot, its active_viewers field included,
\* is performed while dataMutex is held exclusively: a goroutine inside a
\* section that assigns to the snapshot is the writer of dataMutex, and no
\* other goroutine is then inside a section that reads or assigns to it.
C33_SnapshotWrittenUnderExclusiveLock ==
  \A g \in LkRoutines :
    LkWritesSnapshot(g) =>
      /\ lkWriter["dataMutex"] = g
      /\ \A h \in LkRoutines \ {g} : ~LkWritesSnapshot(h) /\ ~LkReadsSnapshot(h)

\* C34: in the WebSocket chat every insertion into and removal from the
\* client registry happens while clientsMutex is held exclusively, so never
\* while a goroutine is inside a read-locked section: the registry does not
\* change while handleBroadcast holds RLock for its range loop.
C34_RegistryChangesUnderExclusiveLock ==
  [][wsClients' # wsClients => hbPc # "loop"]_vars

\* C35: a transport error on one connection (a failed write, a reset that
\* ends the read or cancels the request) affects only that connection: the
\* steps its handler takes for it leave every other connection's registry
\* entry, queue and channel as they are, and no dispatcher is ended by a
\* panic, so later broadcasts still reach the other subscribers.
C35_TransportErrorIsLocal ==
  /\ [][\A c \in WSConns :
          (wsPc[c] \in {"read", "disc"} \/ wpPc[c] = "run")
            /\ (WPWriteFail(c) \/ WSReadError(c) \/ WSDisconnect(c))
            => \A d \in WSConns \ {c} :
                 /\ d \in wsClients => d \in wsClients'
                 /\ wsClosed'[d] = wsClosed[d]
                 /\ wsSend'[d] = wsSend[d]]_vars
  /\ [][\A k \in ChatConns :
          chatPc[k] = "loop"
            /\ (ChatWriteFail(k) \/ ChatHeartbeatFail(k) \/ ChatCtxDone(k))
            => \A j \in ChatConns \ {k} :
                 /\ j \in ChatRegistered => j \in ChatRegistered'
                 /\ chatChan'[j] = chatChan[j]]_vars
  /\ [][\A h \in Streams :
          livePc[h] \in {"loop", "deleted"}
            /\ (StreamDisconnect(h) \/ StreamClose(h))
            => \A g \in Streams \ {h} :
                 /\ g \in liveClients => g \in liveClients'
                 /\ liveClosed'[g] = liveClosed[g]
                 /\ liveChan'[g] = liveChan[g]]_vars
  /\ [](<<"dispatcher", 0>> \notin wsPanic /\ ~livePanic)

\* C36: in the WebSocket chat a "message" event is put on the broadcast
\* queue only for a frame whose text is a non-empty string and only once
\* the message is recorded: every "message" event that enters the queue has
\* its row in the store; a frame whose text is empty or no string, or whose
\* insert fails, records nothing, enqueues nothing and leaves the connection
\* registered, with readPump reading on.
C36_MessageBroadcastAfterStore ==
  /\ [](\A i \in 1..Len(broadcast) :
          broadcast[i].type = "message" => broadcast[i].count \in wsMessages)
  /\ [][\A c \in WSConns : \A kind \in WSBadMessages :
          (wsPc[c] = "read" /\ WSChatInvalid(c, kind))
            => /\ wsMessages' = wsMessages
               /\ broadcast' = broadcast
               /\ wsSend' = wsSend
               /\ wsClients' = wsClients
               /\ wsPc'[c] = "read"]_vars

\* A recorded message is waiting in the broadcast queue and its sender is
\* registered and reading.
C36_Witness ==
  \E i \in 1..Len(broadcast) :
    /\ broadcast[i].type = "message"
    /\ broadcast[i].count \in wsMessages
    /\ broadcast[i].from \in wsClients
    /\ wsPc[broadcast[i].from] = "read"

\* C38: in the WebSocket chat, on connect the new client's "online" list
\* is enqueued on its Send channel before its own user_joined event: no
\* user_joined event of a client exists before its sendOnlineUsersToClient
\* has run, and sendOnlineUsersToClient appends the list to the client's
\* Send queue; the list excludes the client's own user id; and the
\* user_joined count is the size of the registry, the new client included.
C38_OnlineListBeforeUserJoined ==
  /\ [](\A c \in WSConns :
          wsPc[c] \in {"idle", "registered", "listed", "sentonline", "joincount"}
            => /\ \A i \in 1..Len(broadcast) :
                    ~(broadcast[i].type = "user_joined" /\ broadcast[i].from = c)
               /\ ~(hbMsg.type = "user_joined" /\ hbMsg.from = c)
               /\ \A d \in WSConns : \A i \in 1..Len(wsSend[d]) :
                    ~(wsSend[d][i].type = "user_joined" /\ wsSend[d][i].from = c))
  /\ [][\A c \in WSConns :
          (wsPc[c] = "registered" /\ WSListOnline(c))
            => \A d \in wsList'[c] : WSUserOf(d) # WSUserOf(c)]_vars
  /\ [][\A c \in WSConns :
          (wsPc[c] = "listed" /\ WSSendOnline(c))
            => /\ Len(wsSend'[c]) = Len(wsSend[c]) + 1
               /\ wsSend'[c][Len(wsSend'[c])].type = "online"
               /\ wsSend'[c][Len(wsSend'[c])].users = wsList[c]]_vars
  /\ [][\A c \in WSConns :
          (wsPc[c] = "sentonline" /\ WSJoinCount(c))
            => /\ c \in wsClients
               /\ wsCnt'[c] = Cardinality(wsClients)]_vars

====
